---- MODULE Spec2Model ----
(***************************************************************************)
(* A model of the EMS backend (Express routes over one shared SQLite       *)
(* connection): products, add-quantity, sale creation and sale deletion.    *)
(*                                                                         *)
(* Every handler is an async function; it gives up control at each await   *)
(* of a database statement, so a handler is modelled as a sequence of      *)
(* steps, one per awaited statement together with the synchronous code     *)
(* that follows it.  All handlers talk to the same sqlite3.Database object *)
(* (config/database.js), so BEGIN / COMMIT / ROLLBACK act on one shared    *)
(* transaction, whoever issues them.                                       *)
(*                                                                         *)
(* Around the database, the variable app holds the state of the rest of    *)
(* the application: the localStorage, clock and timer of the frontend      *)
(* session, the license file and device number of the machine, and the     *)
(* backend processes of the Electron shell.                                *)
(***************************************************************************)
EXTENDS Integers, Sequences, FiniteSets, TLC

(***************************************************************************)
(* Bounds of the model.                                                    *)
(***************************************************************************)
\* number of requests the server accepts in one behaviour, one request at a time
MaxReq == 3
\* number of requests the server accepts in one behaviour, two at a time
MaxConcReq == 2
\* stock of the product that exists in the initial state
InitQty == 2
\* number of requests the server accepts in one behaviour, with the whole products API
MaxStockReq == 3
\* number of requests to the users and logs API in one behaviour, two at a time
MaxUserReq == 2
\* number of DELETE /sales/:id requests in one behaviour, two at a time
MaxDelReq == 3
\* number of requests the server accepts in one behaviour when audit writes may fail
MaxLogReq == 2

\* handler slots that may be in flight at the same time
Reqs == {1, 2}
\* quantities a request may carry: one that fits the initial stock, one that does not
ItemQtys == {1, InitQty + 1}
\* product ids a request may name (product 2 exists only once it has been created)
ProductIds == {1, 2}
\* amounts (total_amount, paid_amount) a request may carry
Amounts == {0, 3, 10}
\* customer_id of a request: 0 stands for a missing customer_id, 1 exists, 2 does not
CustomerIds == {0, 1, 2}
\* product names of POST /products: "A" is taken in the initial state
ProductNames == {"A", "B"}

(***************************************************************************)
(* JavaScript values and arithmetic.                                       *)
(* A JSON amount is a number or a numeric string; the validators           *)
(* (isFloat, isInt) accept both and do not convert.                        *)
(***************************************************************************)
JsonAmounts == [str : BOOLEAN, v : Amounts]

\* the decimal text of a non-negative integer, as a sequence of digits
RECURSIVE Digits(_)
Digits(n) == IF n < 10 THEN <<n>> ELSE Append(Digits(n \div 10), n % 10)

\* s < t for two strings, as JavaScript compares strings (code unit by code unit)
RECURSIVE LexLess(_, _)
LexLess(s, t) ==
    IF t = <<>> THEN FALSE
    ELSE IF s = <<>> THEN TRUE
    ELSE IF Head(s) < Head(t) THEN TRUE
    ELSE IF Head(s) > Head(t) THEN FALSE
    ELSE LexLess(Tail(s), Tail(t))

\* a > b in JavaScript: two strings compare as strings, anything else as numbers
JsGreater(a, b) ==
    IF a.str /\ b.str THEN LexLess(Digits(b.v), Digits(a.v)) ELSE a.v > b.v

\* a < b in JavaScript
JsLess(a, b) == JsGreater(b, a)

Min(a, b) == IF a < b THEN a ELSE b
Max(a, b) == IF a > b THEN a ELSE b

(***************************************************************************)
(* sales.js: the pure parts of the two handlers.                           *)
(***************************************************************************)
\* POST /sales: the payment status of a request
PaymentStatus(total_amount, paid_amount) ==
    IF JsGreater(paid_amount, total_amount) THEN "overpaid"
    ELSE IF JsLess(paid_amount, total_amount) THEN "underpaid"
    ELSE "paid"

\* POST /sales: the customer's balances <<overpaid, underpaid>> after the sale
CreateBalance(status, total, paid, o, u) ==
    LET res ==
        IF status = "overpaid" THEN
            LET overpaidAmount == paid - total IN
            IF u > 0 THEN
                LET reduction == Min(u, overpaidAmount) IN
                <<o + (overpaidAmount - reduction), u - reduction>>
            ELSE <<o + overpaidAmount, u>>
        ELSE IF status = "underpaid" THEN
            LET underpaidAmount == total - paid IN
            IF o > 0 THEN
                LET reduction == Min(o, underpaidAmount) IN
                <<o - reduction, u + (underpaidAmount - reduction)>>
            ELSE <<o, u + underpaidAmount>>
        ELSE <<o, u>>
    IN <<Max(0, res[1]), Max(0, res[2])>>

\* DELETE /sales/:id: the customer's balances <<overpaid, underpaid>> after the deletion
DeleteBalance(status, total, paid, o, u) ==
    LET res ==
        IF status = "overpaid" THEN
            LET overpaidAmount == paid - total IN
            IF o >= overpaidAmount THEN <<o - overpaidAmount, u>>
            ELSE <<0, u + (overpaidAmount - o)>>
        ELSE IF status = "underpaid" THEN
            LET underpaidAmount == total - paid IN
            IF u >= underpaidAmount THEN <<o, u - underpaidAmount>>
            ELSE <<o + (underpaidAmount - u), 0>>
        ELSE <<o, u>>
    IN <<Max(0, res[1]), Max(0, res[2])>>

(***************************************************************************)
(* The database: the tables of schema.sql that the handlers touch, and the *)
(* AUTOINCREMENT counters (sqlite_sequence), which a rollback restores too. *)
(***************************************************************************)
InitDb ==
    [ products         |-> (1 :> [name |-> "A", qty |-> InitQty]),
      customers        |-> (1 :> [overpaid_amount |-> 0, underpaid_amount |-> 0]),
      sales            |-> << >>,
      sale_items       |-> << >>,
      purchase_history |-> << [product_id |-> 1, qty |-> InitQty] >>,
      activity_logs    |-> << >>,
      users            |-> (1 :> [username |-> "admin", is_active |-> TRUE])
                           @@ (2 :> [username |-> "dev", is_active |-> TRUE]),
      seq              |-> [products |-> 1, sales |-> 0, users |-> 2] ]

\* the rows of a table kept as a function from id to row, without row id
DeleteRow(table, id) == [i \in DOMAIN table \ {id} |-> table[i]]

\* logger.js logActivity: one INSERT INTO activity_logs
LogActivity(d, table_name, action, status) ==
    [d EXCEPT !.activity_logs =
        Append(@, [table_name |-> table_name, action |-> action, status |-> status])]

VARIABLES
    db,       \* the database as the connection sees it (uncommitted writes included)
    txOpen,   \* a transaction is open on the shared connection
    snap,     \* the database at the BEGIN of the open transaction
    h,        \* the handlers in flight: position, request and locals of each
    started,  \* number of requests accepted so far
    g,        \* history of the server that takes one request at a time: the database
              \* and the transaction before the current request, and before the previous one
    app       \* the application around the database: the localStorage and the timer
              \* of the frontend, the clock, the license file, the Electron shell

vars == <<db, txOpen, snap, h, started, g, app>>

\* req.user of a request that names no user
NoUser == [id |-> 0, username |-> ""]
NoResp == [code |-> 0, out_of_stock |-> << >>]
NoSale == [customer_id |-> 0, total_amount |-> 0, paid_amount |-> 0, payment_status |-> ""]

Idle ==
    [ pc |-> "idle", kind |-> "none",
      items |-> << >>, cust |-> 0,
      total |-> [str |-> FALSE, v |-> 0], paid |-> [str |-> FALSE, v |-> 0],
      id |-> 0, qty |-> 0, name |-> "",
      idx |-> 0, productData |-> << >>, outOfStockItems |-> << >>,
      saleId |-> 0, paymentStatus |-> "", sale |-> NoSale, rows |-> << >>,
      bal |-> <<0, 0>>, newQty |-> 0,
      logFails |-> FALSE,
      user |-> NoUser, is_active |-> "undefined", userToDelete |-> "", data |-> {},
      deviceNumber |-> << >>, licenseKey |-> << >>, valid |-> FALSE,
      permissions |-> [isArray |-> FALSE, items |-> {}], permission |-> << >>,
      allowed |-> FALSE,
      pending |-> NoResp, resp |-> NoResp ]

\* nobody is logged in, session management is off, no license is stored, and the
\* Electron shell has started no backend
InitApp ==
    [ token |-> FALSE, enabled |-> FALSE, sessionStart |-> -1, interval |-> FALSE,
      now |-> 0,
      deviceNumber |-> << >>, licenseFile |-> << >>,
      shell |-> [ pc |-> "off", isDev |-> FALSE,
                  responded |-> FALSE, errored |-> FALSE, destroyed |-> FALSE,
                  spawned |-> 0, alive |-> {}, backendProcess |-> 0,
                  serverReady |-> FALSE, settled |-> "pending", window |-> FALSE ] ]

Init ==
    /\ app = InitApp
    /\ db = InitDb
    /\ txOpen = FALSE
    /\ snap = InitDb
    /\ h = [r \in Reqs |-> Idle]
    /\ started = 0
    /\ g = [pre |-> InitDb, preTx |-> FALSE, prevPre |-> InitDb, prevSale |-> 0]


(***************************************************************************)
(* config/database.js: the transaction statements on the shared connection. *)
(* SQLite refuses BEGIN inside a transaction and COMMIT / ROLLBACK outside  *)
(* one; runAsync then rejects and the await throws.                         *)
(***************************************************************************)
\* BEGIN TRANSACTION succeeds
beginTransaction ==
    /\ UNCHANGED app
    /\ ~txOpen
    /\ txOpen' = TRUE
    /\ snap' = db

\* COMMIT succeeds: the writes stay
commit ==
    /\ UNCHANGED app
    /\ txOpen
    /\ txOpen' = FALSE
    /\ snap' = InitDb

\* ROLLBACK succeeds: the database is again what it was at BEGIN
rollback ==
    /\ UNCHANGED app
    /\ txOpen
    /\ txOpen' = FALSE
    /\ snap' = InitDb
    /\ db' = snap

(***************************************************************************)
(* Handlers.                                                               *)
(***************************************************************************)
\* the handler has sent its response (code 0: none was sent) and returned
Finish(rec, code, oos) ==
    [rec EXCEPT !.pc = "done",
                !.resp = [code |-> code, out_of_stock |-> oos],
                !.idx = 0, !.productData = << >>, !.outOfStockItems = << >>,
                !.sale = NoSale, !.rows = << >>, !.bal = <<0, 0>>, !.newQty = 0,
                !.pending = NoResp]

\* a request is accepted by the slot r
Accept(r, rec) ==
    /\ UNCHANGED app
    /\ h[r].pc \in {"idle", "done"}
    /\ started' = started + 1
    /\ h' = [h EXCEPT ![r] = rec]

\* every await of a statement that throws lands in the handler's catch block
Throw(r) == h' = [h EXCEPT ![r].pc = "catch"]

\* an audit write whose failure undoes what the request has written
WriteLogUndoes(r, table_name, action, status) ==
    IF h[r].logFails THEN g.pre ELSE LogActivity(db, table_name, action, status)

\* a call of logSale / logProduct / logPurchase by the handler of slot r: logActivity
\* catches the error of an INSERT that throws, and the handler goes on without the row
WriteLog(r, table_name, action, status) ==
    IF h[r].logFails THEN db ELSE LogActivity(db, table_name, action, status)

\* an early return of the form: await connection.rollback(); return res.status(..)
\* (inside the try block, so a throwing ROLLBACK lands in catch)
RollbackAndReturn(r) ==
    /\ UNCHANGED app
    /\ h[r].pc = "rollbackReturn"
    /\ IF txOpen
       THEN /\ rollback
            /\ h' = [h EXCEPT ![r] = Finish(@, @.pending.code, @.pending.out_of_stock)]
       ELSE /\ Throw(r)
            /\ UNCHANGED <<db, txOpen, snap>>
    /\ UNCHANGED <<started, g>>

(***************************************************************************)
(* sales.js router.post('/'): create a sale.                               *)
(***************************************************************************)
Item == [product_id : ProductIds, qty : ItemQtys]

\* the items lists of one or two lines
ItemLists == {<<i>> : i \in Item} \cup {<<i, j>> : i \in Item, j \in Item}

\* a paid sale of one unit of product 1 to a walk-in customer
PlainSale ==
    [ items |-> << [product_id |-> 1, qty |-> 1] >>, cust |-> 0,
      total |-> [str |-> FALSE, v |-> 3], paid |-> [str |-> FALSE, v |-> 3] ]

\* bodies of POST /sales, one request at a time: the plain sale with any items list
\* (the empty one fails validateSale), and the plain sale with any customer and any
\* two amounts, both sent as numbers or both as numeric strings
SaleRequests ==
    {[PlainSale EXCEPT !.items = l] : l \in ItemLists \cup {<< >>}}
    \cup {[PlainSale EXCEPT !.cust = c, !.total = [str |-> s, v |-> t],
                            !.paid = [str |-> s, v |-> p]] :
            c \in CustomerIds \ {0}, s \in BOOLEAN, t \in Amounts, p \in Amounts}

\* bodies of POST /sales for the interleaved server: one line of any product or two
\* lines of product 1, with or without the customer, overpaid by 7
ConcSaleRequests ==
    {[PlainSale EXCEPT !.items = l, !.cust = c, !.paid = [str |-> FALSE, v |-> 10]] :
        l \in {m \in ItemLists : Len(m) = 1 \/ \A i \in DOMAIN m : m[i].product_id = 1},
        c \in {0, 1}}

\* validateSale, getConnection
PostSaleStart(r, requests) ==
    \E body \in requests :
        /\ Accept(r, [Idle EXCEPT !.kind = "postSale", !.items = body.items,
                                  !.cust = body.cust,
                                  !.total = body.total, !.paid = body.paid,
                                  !.pc = IF body.items = << >> THEN "done" ELSE "begin",
                                  !.resp = IF body.items = << >>
                                           THEN [code |-> 400, out_of_stock |-> << >>]
                                           ELSE NoResp])
        /\ UNCHANGED <<db, txOpen, snap>>

\* await connection.beginTransaction()
PostSaleBegin(r) ==
    /\ UNCHANGED app
    /\ h[r].kind = "postSale" /\ h[r].pc = "begin"
    /\ IF ~txOpen
       THEN /\ beginTransaction
            /\ h' = [h EXCEPT ![r].pc = "check", ![r].idx = 1]
       ELSE /\ Throw(r)
            /\ UNCHANGED <<txOpen, snap>>
    /\ UNCHANGED <<db, started, g>>

\* the stock comparison off by one: a request for one unit more than the stock passes
OutOfStockOffByOne(product, item) == product.qty + 1 < item.qty

\* if (parseFloat(product.qty) < parseFloat(item.qty))
OutOfStock(product, item) == product.qty < item.qty

\* the stock check that reports the first insufficient line only
PushFirstOnly(list, product, item) ==
    IF OutOfStock(product, item) /\ list = << >>
    THEN Append(list, [product_id |-> item.product_id,
                       available_qty |-> product.qty,
                       requested_qty |-> item.qty])
    ELSE list

\* the stock comparison of one line and outOfStockItems.push
PushOutOfStock(list, product, item) ==
    IF OutOfStock(product, item)
    THEN Append(list, [product_id |-> item.product_id,
                       available_qty |-> product.qty,
                       requested_qty |-> item.qty])
    ELSE list

\* one round of the stock check loop: SELECT the product of items[idx]
PostSaleCheck(r) ==
    /\ UNCHANGED app
    /\ h[r].kind = "postSale" /\ h[r].pc = "check"
    /\ LET item == h[r].items[h[r].idx]
           found == item.product_id \in DOMAIN db.products
           product == db.products[item.product_id]
           oos == PushOutOfStock(h[r].outOfStockItems, product, item)
           pd == Append(h[r].productData, [id |-> item.product_id, qty |-> product.qty])
           last == h[r].idx = Len(h[r].items)
       IN  h' = [h EXCEPT ![r] =
                IF ~found
                THEN [@ EXCEPT !.pc = "rollbackReturn",
                               !.pending = [code |-> 404, out_of_stock |-> << >>]]
                ELSE IF ~last
                THEN [@ EXCEPT !.idx = @ + 1, !.outOfStockItems = oos, !.productData = pd]
                ELSE IF oos # << >>
                THEN [@ EXCEPT !.pc = "rollbackReturn", !.outOfStockItems = oos,
                               !.productData = pd,
                               !.pending = [code |-> 400, out_of_stock |-> oos]]
                ELSE [@ EXCEPT !.pc = "insertSale", !.outOfStockItems = oos,
                               !.productData = pd,
                               !.paymentStatus = PaymentStatus(h[r].total, h[r].paid)]]
    /\ UNCHANGED <<db, txOpen, snap, started, g>>

\* INSERT INTO sales; customer_id is a foreign key
PostSaleInsertSale(r) ==
    /\ UNCHANGED app
    /\ h[r].kind = "postSale" /\ h[r].pc = "insertSale"
    /\ IF h[r].cust = 0 \/ h[r].cust \in DOMAIN db.customers
       THEN LET saleId == db.seq.sales + 1 IN
            /\ db' = [db EXCEPT !.seq.sales = saleId,
                                !.sales = @ @@ (saleId :>
                                    [customer_id |-> h[r].cust,
                                     total_amount |-> h[r].total.v,
                                     paid_amount |-> h[r].paid.v,
                                     payment_status |-> h[r].paymentStatus])]
            /\ h' = [h EXCEPT ![r].pc = "insertItem", ![r].saleId = saleId, ![r].idx = 1]
       ELSE /\ Throw(r)
            /\ UNCHANGED db
    /\ UNCHANGED <<txOpen, snap, started, g>>

\* a database that does not enforce the foreign key of sale_items.sale_id
ForeignKeyOff(d, saleId) == TRUE

\* FOREIGN KEY (sale_id) REFERENCES sales(id), enforced (PRAGMA foreign_keys = ON)
ForeignKeySale(d, saleId) == saleId \in DOMAIN d.sales

\* INSERT INTO sale_items for items[idx]; sale_id and product_id are foreign keys
PostSaleInsertItem(r) ==
    /\ UNCHANGED app
    /\ h[r].kind = "postSale" /\ h[r].pc = "insertItem"
    /\ LET item == h[r].items[h[r].idx]
           product == h[r].productData[h[r].idx]
       IN  IF ForeignKeySale(db, h[r].saleId) /\ product.id \in DOMAIN db.products
           THEN /\ db' = [db EXCEPT !.sale_items =
                            Append(@, [sale_id |-> h[r].saleId,
                                       product_id |-> product.id,
                                       qty |-> item.qty])]
                /\ h' = [h EXCEPT ![r].pc = "updateQty"]
           ELSE /\ Throw(r)
                /\ UNCHANGED db
    /\ UNCHANGED <<txOpen, snap, started, g>>

\* the subtraction with its operands exchanged
NewQtySwapped(product, item) == item.qty - product.qty

\* newQty = product.qty - item.qty, from the row read by the stock check
NewQty(product, item) == product.qty - item.qty

\* UPDATE products SET qty = newQty for items[idx]
PostSaleUpdateQty(r) ==
    /\ UNCHANGED app
    /\ h[r].kind = "postSale" /\ h[r].pc = "updateQty"
    /\ LET item == h[r].items[h[r].idx]
           product == h[r].productData[h[r].idx]
           last == h[r].idx = Len(h[r].items)
       IN  /\ db' = IF product.id \in DOMAIN db.products
                    THEN [db EXCEPT !.products[product.id].qty = NewQty(product, item)]
                    ELSE db
           /\ h' = [h EXCEPT ![r].idx = IF last THEN 0 ELSE @ + 1,
                             ![r].pc = IF ~last THEN "insertItem"
                                       ELSE IF h[r].cust # 0 THEN "selectCustomer"
                                       ELSE "commit"]
    /\ UNCHANGED <<txOpen, snap, started, g>>

\* SELECT overpaid_amount, underpaid_amount FROM customers, and the reconciliation
PostSaleSelectCustomer(r) ==
    /\ UNCHANGED app
    /\ h[r].kind = "postSale" /\ h[r].pc = "selectCustomer"
    /\ h' = [h EXCEPT ![r] =
            IF @.cust \in DOMAIN db.customers
            THEN [@ EXCEPT !.pc = "updateCustomer",
                           !.bal = CreateBalance(h[r].paymentStatus, h[r].total.v, h[r].paid.v,
                                       db.customers[h[r].cust].overpaid_amount,
                                       db.customers[h[r].cust].underpaid_amount)]
            ELSE [@ EXCEPT !.pc = "commit"]]
    /\ UNCHANGED <<db, txOpen, snap, started, g>>

\* UPDATE customers SET overpaid_amount = ?, underpaid_amount = ?
PostSaleUpdateCustomer(r) ==
    /\ UNCHANGED app
    /\ h[r].kind = "postSale" /\ h[r].pc = "updateCustomer"
    /\ db' = IF h[r].cust \in DOMAIN db.customers
             THEN [db EXCEPT !.customers[h[r].cust] =
                        [overpaid_amount |-> h[r].bal[1], underpaid_amount |-> h[r].bal[2]]]
             ELSE db
    /\ h' = [h EXCEPT ![r].pc = "commit"]
    /\ UNCHANGED <<txOpen, snap, started, g>>

\* await connection.commit()
PostSaleCommit(r) ==
    /\ UNCHANGED app
    /\ h[r].kind = "postSale" /\ h[r].pc = "commit"
    /\ IF txOpen
       THEN /\ commit
            /\ h' = [h EXCEPT ![r].pc = "fetch"]
       ELSE /\ Throw(r)
            /\ UNCHANGED <<txOpen, snap>>
    /\ UNCHANGED <<db, started, g>>

\* the two SELECTs that build saleData for the log and the response: they read only
PostSaleFetch(r) ==
    /\ UNCHANGED app
    /\ h[r].kind = "postSale" /\ h[r].pc = "fetch"
    /\ h' = [h EXCEPT ![r].pc = "log"]
    /\ UNCHANGED <<db, txOpen, snap, started, g>>

\* await logSale(.., 'success'); res.status(201)
PostSaleLog(r) ==
    /\ UNCHANGED app
    /\ h[r].kind = "postSale" /\ h[r].pc = "log"
    /\ db' = WriteLog(r, "sales", "CREATE", "success")
    /\ h' = [h EXCEPT ![r] = Finish(@, 201, << >>)]
    /\ UNCHANGED <<txOpen, snap, started, g>>

\* catch: await connection.rollback(); then the argument { customer_name, total_amount,
\* items } of logSale names constants of the try block, which are not in scope here:
\* a ReferenceError leaves the catch block, nothing is logged and no response is sent.
\* A ROLLBACK outside a transaction throws as well, with the same end.
PostSaleCatch(r) ==
    /\ UNCHANGED app
    /\ h[r].kind = "postSale" /\ h[r].pc = "catch"
    /\ IF txOpen THEN rollback ELSE UNCHANGED <<db, txOpen, snap>>
    /\ h' = [h EXCEPT ![r] = Finish(@, 0, << >>)]
    /\ UNCHANGED <<started, g>>

PostSale(r) ==
    \/ PostSaleBegin(r)
    \/ PostSaleCheck(r)
    \/ PostSaleInsertSale(r)
    \/ PostSaleInsertItem(r)
    \/ PostSaleUpdateQty(r)
    \/ PostSaleSelectCustomer(r)
    \/ PostSaleUpdateCustomer(r)
    \/ PostSaleCommit(r)
    \/ PostSaleFetch(r)
    \/ PostSaleLog(r)
    \/ PostSaleCatch(r)


(***************************************************************************)
(* sales.js router.delete('/:id'): delete a sale and restore the stock.    *)
(***************************************************************************)
\* ids a DELETE /sales/:id may name
SaleIds == 1 .. MaxReq

\* getConnection
DeleteSaleStart(r) ==
    \E id \in SaleIds :
        /\ Accept(r, [Idle EXCEPT !.kind = "deleteSale", !.id = id, !.pc = "begin"])
        /\ UNCHANGED <<db, txOpen, snap>>

\* await connection.beginTransaction()
DeleteSaleBegin(r) ==
    /\ UNCHANGED app
    /\ h[r].kind = "deleteSale" /\ h[r].pc = "begin"
    /\ IF ~txOpen
       THEN /\ beginTransaction
            /\ h' = [h EXCEPT ![r].pc = "selectSale"]
       ELSE /\ Throw(r)
            /\ UNCHANGED <<txOpen, snap>>
    /\ UNCHANGED <<db, started, g>>

\* SELECT * FROM sales WHERE id = ?
DeleteSaleSelectSale(r) ==
    /\ UNCHANGED app
    /\ h[r].kind = "deleteSale" /\ h[r].pc = "selectSale"
    /\ h' = [h EXCEPT ![r] =
            IF @.id \in DOMAIN db.sales
            THEN [@ EXCEPT !.pc = "selectItems", !.sale = db.sales[h[r].id]]
            ELSE [@ EXCEPT !.pc = "rollbackReturn",
                           !.pending = [code |-> 404, out_of_stock |-> << >>]]]
    /\ UNCHANGED <<db, txOpen, snap, started, g>>

\* the branch after the restock loop: if (sale.customer_id)
AfterRestock(rec) == IF rec.sale.customer_id # 0 THEN "selectCustomer" ELSE "deleteRow"

\* SELECT * FROM sale_items WHERE sale_id = ?
DeleteSaleSelectItems(r) ==
    /\ UNCHANGED app
    /\ h[r].kind = "deleteSale" /\ h[r].pc = "selectItems"
    /\ LET rows == SelectSeq(db.sale_items, LAMBDA it : it.sale_id = h[r].id)
       IN  h' = [h EXCEPT ![r] =
                [@ EXCEPT !.rows = rows,
                          !.idx = IF rows = << >> THEN 0 ELSE 1,
                          !.pc = IF rows = << >> THEN AfterRestock(h[r]) ELSE "restock"]]
    /\ UNCHANGED <<db, txOpen, snap, started, g>>

\* a restock that leaves the qty of the row as it is
RestockedNot(qty, item) == qty

\* UPDATE products SET qty = qty + ? WHERE id = ?, the new qty of the row
Restocked(qty, item) == qty + item.qty

\* one round of the restock loop
DeleteSaleRestock(r) ==
    /\ UNCHANGED app
    /\ h[r].kind = "deleteSale" /\ h[r].pc = "restock"
    /\ LET item == h[r].rows[h[r].idx]
           last == h[r].idx = Len(h[r].rows)
       IN  /\ db' = IF item.product_id \in DOMAIN db.products
                    THEN [db EXCEPT !.products[item.product_id].qty = Restocked(@, item)]
                    ELSE db
           /\ h' = [h EXCEPT ![r] =
                    [@ EXCEPT !.idx = IF last THEN 0 ELSE @ + 1,
                              !.pc = IF last THEN AfterRestock(h[r]) ELSE "restock"]]
    /\ UNCHANGED <<txOpen, snap, started, g>>

\* SELECT overpaid_amount, underpaid_amount FROM customers, and the reversal
DeleteSaleSelectCustomer(r) ==
    /\ UNCHANGED app
    /\ h[r].kind = "deleteSale" /\ h[r].pc = "selectCustomer"
    /\ h' = [h EXCEPT ![r] =
            IF @.sale.customer_id \in DOMAIN db.customers
            THEN [@ EXCEPT !.pc = "updateCustomer",
                           !.bal = DeleteBalance(h[r].sale.payment_status,
                                       h[r].sale.total_amount, h[r].sale.paid_amount,
                                       db.customers[h[r].sale.customer_id].overpaid_amount,
                                       db.customers[h[r].sale.customer_id].underpaid_amount)]
            ELSE [@ EXCEPT !.pc = "deleteRow"]]
    /\ UNCHANGED <<db, txOpen, snap, started, g>>

\* UPDATE customers SET overpaid_amount = ?, underpaid_amount = ?
DeleteSaleUpdateCustomer(r) ==
    /\ UNCHANGED app
    /\ h[r].kind = "deleteSale" /\ h[r].pc = "updateCustomer"
    /\ LET c == h[r].sale.customer_id
       IN  db' = IF c \in DOMAIN db.customers
                 THEN [db EXCEPT !.customers[c] =
                        [overpaid_amount |-> h[r].bal[1], underpaid_amount |-> h[r].bal[2]]]
                 ELSE db
    /\ h' = [h EXCEPT ![r].pc = "deleteRow"]
    /\ UNCHANGED <<txOpen, snap, started, g>>

\* DELETE FROM sales WHERE id = ?; the foreign key of sale_items cascades
DeleteSaleDelete(r) ==
    /\ UNCHANGED app
    /\ h[r].kind = "deleteSale" /\ h[r].pc = "deleteRow"
    /\ db' = [db EXCEPT !.sales = DeleteRow(@, h[r].id),
                        !.sale_items = SelectSeq(@, LAMBDA it : it.sale_id # h[r].id)]
    /\ h' = [h EXCEPT ![r].pc = "commit"]
    /\ UNCHANGED <<txOpen, snap, started, g>>

\* await connection.commit()
DeleteSaleCommit(r) ==
    /\ UNCHANGED app
    /\ h[r].kind = "deleteSale" /\ h[r].pc = "commit"
    /\ IF txOpen
       THEN /\ commit
            /\ h' = [h EXCEPT ![r].pc = "log"]
       ELSE /\ Throw(r)
            /\ UNCHANGED <<txOpen, snap>>
    /\ UNCHANGED <<db, started, g>>

\* await logSale(.., 'success'); res.json
DeleteSaleLog(r) ==
    /\ UNCHANGED app
    /\ h[r].kind = "deleteSale" /\ h[r].pc = "log"
    /\ db' = WriteLog(r, "sales", "DELETE", "success")
    /\ h' = [h EXCEPT ![r] = Finish(@, 200, << >>)]
    /\ UNCHANGED <<txOpen, snap, started, g>>

\* catch: await connection.rollback(); a ROLLBACK outside a transaction throws out of
\* the catch block and no response is sent
DeleteSaleCatch(r) ==
    /\ UNCHANGED app
    /\ h[r].kind = "deleteSale" /\ h[r].pc = "catch"
    /\ IF txOpen
       THEN /\ rollback
            /\ h' = [h EXCEPT ![r].pc = "logFailed"]
       ELSE /\ h' = [h EXCEPT ![r] = Finish(@, 0, << >>)]
            /\ UNCHANGED <<db, txOpen, snap>>
    /\ UNCHANGED <<started, g>>

\* catch: await logSale(.., 'failed', error.message); res.status(500)
DeleteSaleLogFailed(r) ==
    /\ UNCHANGED app
    /\ h[r].kind = "deleteSale" /\ h[r].pc = "logFailed"
    /\ db' = WriteLog(r, "sales", "DELETE", "failed")
    /\ h' = [h EXCEPT ![r] = Finish(@, 500, << >>)]
    /\ UNCHANGED <<txOpen, snap, started, g>>

DeleteSale(r) ==
    \/ DeleteSaleBegin(r)
    \/ DeleteSaleSelectSale(r)
    \/ DeleteSaleSelectItems(r)
    \/ DeleteSaleRestock(r)
    \/ DeleteSaleSelectCustomer(r)
    \/ DeleteSaleUpdateCustomer(r)
    \/ DeleteSaleDelete(r)
    \/ DeleteSaleCommit(r)
    \/ DeleteSaleLog(r)
    \/ DeleteSaleCatch(r)
    \/ DeleteSaleLogFailed(r)

(***************************************************************************)
(* routes/products.js router.post('/:id/add-quantity').                    *)
(***************************************************************************)
\* qty of an add-quantity request: 0 fails the handler's own validation
AddQtys == {0, 1}

\* getConnection
AddQuantityStart(r) ==
    \E id \in ProductIds, qty \in AddQtys :
        /\ Accept(r, [Idle EXCEPT !.kind = "addQuantity", !.id = id, !.qty = qty,
                                  !.pc = "begin"])
        /\ UNCHANGED <<db, txOpen, snap>>

\* if (!qty || qty < 1 || !Number.isInteger(parseFloat(qty)))
InvalidQty(qty) == qty < 1

\* await connection.beginTransaction(); then the validation of qty, whose early
\* return sends 400 without rollback
AddQuantityBegin(r) ==
    /\ UNCHANGED app
    /\ h[r].kind = "addQuantity" /\ h[r].pc = "begin"
    /\ IF ~txOpen
       THEN /\ beginTransaction
            /\ h' = [h EXCEPT ![r] =
                    IF InvalidQty(@.qty) THEN Finish(@, 400, << >>)
                    ELSE [@ EXCEPT !.pc = "select"]]
       ELSE /\ Throw(r)
            /\ UNCHANGED <<txOpen, snap>>
    /\ UNCHANGED <<db, started, g>>

\* SELECT id, name, qty, original_price FROM products WHERE id = ?
AddQuantitySelect(r) ==
    /\ UNCHANGED app
    /\ h[r].kind = "addQuantity" /\ h[r].pc = "select"
    /\ h' = [h EXCEPT ![r] =
            IF @.id \in DOMAIN db.products
            THEN [@ EXCEPT !.pc = "update", !.newQty = db.products[h[r].id].qty + h[r].qty]
            ELSE [@ EXCEPT !.pc = "rollbackReturn",
                           !.pending = [code |-> 404, out_of_stock |-> << >>]]]
    /\ UNCHANGED <<db, txOpen, snap, started, g>>

\* UPDATE products SET qty = newQty WHERE id = ?
AddQuantityUpdate(r) ==
    /\ UNCHANGED app
    /\ h[r].kind = "addQuantity" /\ h[r].pc = "update"
    /\ db' = IF h[r].id \in DOMAIN db.products
             THEN [db EXCEPT !.products[h[r].id].qty = h[r].newQty]
             ELSE db
    /\ h' = [h EXCEPT ![r].pc = "insertPurchase"]
    /\ UNCHANGED <<txOpen, snap, started, g>>

\* INSERT INTO purchase_history; product_id is a foreign key
AddQuantityInsertPurchase(r) ==
    /\ UNCHANGED app
    /\ h[r].kind = "addQuantity" /\ h[r].pc = "insertPurchase"
    /\ IF h[r].id \in DOMAIN db.products
       THEN /\ db' = [db EXCEPT !.purchase_history =
                        Append(@, [product_id |-> h[r].id, qty |-> h[r].qty])]
            /\ h' = [h EXCEPT ![r].pc = "log"]
       ELSE /\ Throw(r)
            /\ UNCHANGED db
    /\ UNCHANGED <<txOpen, snap, started, g>>

\* await logPurchase(.., 'success'), before the commit
AddQuantityLog(r) ==
    /\ UNCHANGED app
    /\ h[r].kind = "addQuantity" /\ h[r].pc = "log"
    /\ db' = WriteLog(r, "purchase_history", "CREATE", "success")
    /\ h' = [h EXCEPT ![r].pc = "commit"]
    /\ UNCHANGED <<txOpen, snap, started, g>>

\* await connection.commit(); res.json
AddQuantityCommit(r) ==
    /\ UNCHANGED app
    /\ h[r].kind = "addQuantity" /\ h[r].pc = "commit"
    /\ IF txOpen
       THEN /\ commit
            /\ h' = [h EXCEPT ![r] = Finish(@, 200, << >>)]
       ELSE /\ Throw(r)
            /\ UNCHANGED <<txOpen, snap>>
    /\ UNCHANGED <<db, started, g>>

\* catch: await connection.rollback(); then { product_id: productId, qty, notes } names
\* constants of the try block: a ReferenceError, no log row and no response
AddQuantityCatch(r) ==
    /\ UNCHANGED app
    /\ h[r].kind = "addQuantity" /\ h[r].pc = "catch"
    /\ IF txOpen THEN rollback ELSE UNCHANGED <<db, txOpen, snap>>
    /\ h' = [h EXCEPT ![r] = Finish(@, 0, << >>)]
    /\ UNCHANGED <<started, g>>

AddQuantity(r) ==
    \/ AddQuantityBegin(r)
    \/ AddQuantitySelect(r)
    \/ AddQuantityUpdate(r)
    \/ AddQuantityInsertPurchase(r)
    \/ AddQuantityLog(r)
    \/ AddQuantityCommit(r)
    \/ AddQuantityCatch(r)


(***************************************************************************)
(* routes/products.js router.post('/'): create a product.                  *)
(***************************************************************************)
\* validateProduct (qty is an integer >= 1), getConnection
PostProductStart(r) ==
    \E name \in ProductNames, qty \in {1, InitQty} :
        /\ Accept(r, [Idle EXCEPT !.kind = "postProduct", !.name = name, !.qty = qty,
                                  !.pc = "begin"])
        /\ UNCHANGED <<db, txOpen, snap>>

\* await connection.beginTransaction()
PostProductBegin(r) ==
    /\ UNCHANGED app
    /\ h[r].kind = "postProduct" /\ h[r].pc = "begin"
    /\ IF ~txOpen
       THEN /\ beginTransaction
            /\ h' = [h EXCEPT ![r].pc = "selectName"]
       ELSE /\ Throw(r)
            /\ UNCHANGED <<txOpen, snap>>
    /\ UNCHANGED <<db, started, g>>

\* a product row carries the name
NameTaken(d, name) == \E p \in DOMAIN d.products : d.products[p].name = name

\* SELECT id FROM products WHERE name = ?
PostProductSelectName(r) ==
    /\ UNCHANGED app
    /\ h[r].kind = "postProduct" /\ h[r].pc = "selectName"
    /\ h' = [h EXCEPT ![r] =
            IF NameTaken(db, @.name)
            THEN [@ EXCEPT !.pc = "rollbackReturn",
                           !.pending = [code |-> 400, out_of_stock |-> << >>]]
            ELSE [@ EXCEPT !.pc = "insert"]]
    /\ UNCHANGED <<db, txOpen, snap, started, g>>

\* INSERT INTO products; name is UNIQUE
PostProductInsert(r) ==
    /\ UNCHANGED app
    /\ h[r].kind = "postProduct" /\ h[r].pc = "insert"
    /\ IF ~NameTaken(db, h[r].name)
       THEN LET productId == db.seq.products + 1 IN
            /\ db' = [db EXCEPT !.seq.products = productId,
                                !.products = @ @@ (productId :>
                                    [name |-> h[r].name, qty |-> h[r].qty])]
            /\ h' = [h EXCEPT ![r].pc = "insertPurchase", ![r].id = productId]
       ELSE /\ Throw(r)
            /\ UNCHANGED db
    /\ UNCHANGED <<txOpen, snap, started, g>>

\* if (qty > 0) INSERT INTO purchase_history ('Initial stock'); product_id is a foreign key
PostProductInsertPurchase(r) ==
    /\ UNCHANGED app
    /\ h[r].kind = "postProduct" /\ h[r].pc = "insertPurchase"
    /\ IF h[r].qty > 0
       THEN IF h[r].id \in DOMAIN db.products
            THEN /\ db' = [db EXCEPT !.purchase_history =
                            Append(@, [product_id |-> h[r].id, qty |-> h[r].qty])]
                 /\ h' = [h EXCEPT ![r].pc = "logPurchase"]
            ELSE /\ Throw(r)
                 /\ UNCHANGED db
       ELSE /\ h' = [h EXCEPT ![r].pc = "commit"]
            /\ UNCHANGED db
    /\ UNCHANGED <<txOpen, snap, started, g>>

\* await logPurchase(.., 'success'), before the commit
PostProductLogPurchase(r) ==
    /\ UNCHANGED app
    /\ h[r].kind = "postProduct" /\ h[r].pc = "logPurchase"
    /\ db' = WriteLog(r, "purchase_history", "CREATE", "success")
    /\ h' = [h EXCEPT ![r].pc = "commit"]
    /\ UNCHANGED <<txOpen, snap, started, g>>

\* await connection.commit()
PostProductCommit(r) ==
    /\ UNCHANGED app
    /\ h[r].kind = "postProduct" /\ h[r].pc = "commit"
    /\ IF txOpen
       THEN /\ commit
            /\ h' = [h EXCEPT ![r].pc = "fetch"]
       ELSE /\ Throw(r)
            /\ UNCHANGED <<txOpen, snap>>
    /\ UNCHANGED <<db, started, g>>

\* the SELECT of the created product with its unit: it reads only
PostProductFetch(r) ==
    /\ UNCHANGED app
    /\ h[r].kind = "postProduct" /\ h[r].pc = "fetch"
    /\ h' = [h EXCEPT ![r].pc = "log"]
    /\ UNCHANGED <<db, txOpen, snap, started, g>>

\* await logProduct(.., 'success'); res.status(201)
PostProductLog(r) ==
    /\ UNCHANGED app
    /\ h[r].kind = "postProduct" /\ h[r].pc = "log"
    /\ db' = WriteLog(r, "products", "CREATE", "success")
    /\ h' = [h EXCEPT ![r] = Finish(@, 201, << >>)]
    /\ UNCHANGED <<txOpen, snap, started, g>>

\* catch: await connection.rollback(); then { name, description, qty, .. } names
\* constants of the try block: a ReferenceError, no log row and no response
PostProductCatch(r) ==
    /\ UNCHANGED app
    /\ h[r].kind = "postProduct" /\ h[r].pc = "catch"
    /\ IF txOpen THEN rollback ELSE UNCHANGED <<db, txOpen, snap>>
    /\ h' = [h EXCEPT ![r] = Finish(@, 0, << >>)]
    /\ UNCHANGED <<started, g>>

PostProduct(r) ==
    \/ PostProductBegin(r)
    \/ PostProductSelectName(r)
    \/ PostProductInsert(r)
    \/ PostProductInsertPurchase(r)
    \/ PostProductLogPurchase(r)
    \/ PostProductCommit(r)
    \/ PostProductFetch(r)
    \/ PostProductLog(r)
    \/ PostProductCatch(r)

(***************************************************************************)
(* routes/products.js router.put('/:id'): update a product (not its qty).  *)
(***************************************************************************)
\* getConnection
PutProductStart(r) ==
    \E id \in ProductIds, name \in ProductNames :
        /\ Accept(r, [Idle EXCEPT !.kind = "putProduct", !.id = id, !.name = name,
                                  !.pc = "begin"])
        /\ UNCHANGED <<db, txOpen, snap>>

\* await connection.beginTransaction()
PutProductBegin(r) ==
    /\ UNCHANGED app
    /\ h[r].kind = "putProduct" /\ h[r].pc = "begin"
    /\ IF ~txOpen
       THEN /\ beginTransaction
            /\ h' = [h EXCEPT ![r].pc = "select"]
       ELSE /\ Throw(r)
            /\ UNCHANGED <<txOpen, snap>>
    /\ UNCHANGED <<db, started, g>>

\* SELECT * FROM products WHERE id = ?; if (name && name !== existing[0].name)
PutProductSelect(r) ==
    /\ UNCHANGED app
    /\ h[r].kind = "putProduct" /\ h[r].pc = "select"
    /\ h' = [h EXCEPT ![r] =
            IF @.id \notin DOMAIN db.products
            THEN [@ EXCEPT !.pc = "rollbackReturn",
                           !.pending = [code |-> 404, out_of_stock |-> << >>]]
            ELSE IF @.name # db.products[h[r].id].name
            THEN [@ EXCEPT !.pc = "nameCheck"]
            ELSE [@ EXCEPT !.pc = "update"]]
    /\ UNCHANGED <<db, txOpen, snap, started, g>>

\* another product row carries the name
NameTakenByOther(d, name, id) ==
    \E p \in DOMAIN d.products \ {id} : d.products[p].name = name

\* SELECT id FROM products WHERE name = ? AND id != ?
PutProductNameCheck(r) ==
    /\ UNCHANGED app
    /\ h[r].kind = "putProduct" /\ h[r].pc = "nameCheck"
    /\ h' = [h EXCEPT ![r] =
            IF NameTakenByOther(db, @.name, @.id)
            THEN [@ EXCEPT !.pc = "rollbackReturn",
                           !.pending = [code |-> 400, out_of_stock |-> << >>]]
            ELSE [@ EXCEPT !.pc = "update"]]
    /\ UNCHANGED <<db, txOpen, snap, started, g>>

\* UPDATE products SET name = ?, .. WHERE id = ?; name is UNIQUE
PutProductUpdate(r) ==
    /\ UNCHANGED app
    /\ h[r].kind = "putProduct" /\ h[r].pc = "update"
    /\ IF NameTakenByOther(db, h[r].name, h[r].id)
       THEN /\ Throw(r)
            /\ UNCHANGED db
       ELSE /\ db' = IF h[r].id \in DOMAIN db.products
                    THEN [db EXCEPT !.products[h[r].id].name = h[r].name]
                    ELSE db
            /\ h' = [h EXCEPT ![r].pc = "commit"]
    /\ UNCHANGED <<txOpen, snap, started, g>>

\* await connection.commit()
PutProductCommit(r) ==
    /\ UNCHANGED app
    /\ h[r].kind = "putProduct" /\ h[r].pc = "commit"
    /\ IF txOpen
       THEN /\ commit
            /\ h' = [h EXCEPT ![r].pc = "fetch"]
       ELSE /\ Throw(r)
            /\ UNCHANGED <<txOpen, snap>>
    /\ UNCHANGED <<db, started, g>>

\* the SELECT of the updated product with its unit: it reads only
PutProductFetch(r) ==
    /\ UNCHANGED app
    /\ h[r].kind = "putProduct" /\ h[r].pc = "fetch"
    /\ h' = [h EXCEPT ![r].pc = "log"]
    /\ UNCHANGED <<db, txOpen, snap, started, g>>

\* await logProduct(.., 'UPDATE', .., 'success'); res.json
PutProductLog(r) ==
    /\ UNCHANGED app
    /\ h[r].kind = "putProduct" /\ h[r].pc = "log"
    /\ db' = WriteLog(r, "products", "UPDATE", "success")
    /\ h' = [h EXCEPT ![r] = Finish(@, 200, << >>)]
    /\ UNCHANGED <<txOpen, snap, started, g>>

\* catch: await connection.rollback(); then productId and { name, description, .. }
\* name constants of the try block: a ReferenceError, no log row and no response
PutProductCatch(r) ==
    /\ UNCHANGED app
    /\ h[r].kind = "putProduct" /\ h[r].pc = "catch"
    /\ IF txOpen THEN rollback ELSE UNCHANGED <<db, txOpen, snap>>
    /\ h' = [h EXCEPT ![r] = Finish(@, 0, << >>)]
    /\ UNCHANGED <<started, g>>

PutProduct(r) ==
    \/ PutProductBegin(r)
    \/ PutProductSelect(r)
    \/ PutProductNameCheck(r)
    \/ PutProductUpdate(r)
    \/ PutProductCommit(r)
    \/ PutProductFetch(r)
    \/ PutProductLog(r)
    \/ PutProductCatch(r)

(***************************************************************************)
(* routes/products.js router.delete('/:id'): delete a product.  The        *)
(* handler uses no transaction of its own.                                  *)
(***************************************************************************)
DeleteProductStart(r) ==
    \E id \in ProductIds :
        /\ Accept(r, [Idle EXCEPT !.kind = "deleteProduct", !.id = id, !.pc = "select"])
        /\ UNCHANGED <<db, txOpen, snap>>

\* SELECT * FROM products WHERE id = ?
DeleteProductSelect(r) ==
    /\ UNCHANGED app
    /\ h[r].kind = "deleteProduct" /\ h[r].pc = "select"
    /\ h' = [h EXCEPT ![r] =
            IF @.id \in DOMAIN db.products
            THEN [@ EXCEPT !.pc = "delete"]
            ELSE Finish(@, 404, << >>)]
    /\ UNCHANGED <<db, txOpen, snap, started, g>>

\* sale_items: FOREIGN KEY (product_id) REFERENCES products(id) ON DELETE RESTRICT
Restricted(d, productId) ==
    \E i \in DOMAIN d.sale_items : d.sale_items[i].product_id = productId

\* purchase_history: FOREIGN KEY (product_id) REFERENCES products(id) ON DELETE CASCADE
CascadePurchases(purchase_history, productId) ==
    SelectSeq(purchase_history, LAMBDA row : row.product_id # productId)

\* DELETE FROM products WHERE id = ?; if (result.affectedRows === 0) 404
DeleteProductDelete(r) ==
    /\ UNCHANGED app
    /\ h[r].kind = "deleteProduct" /\ h[r].pc = "delete"
    /\ IF Restricted(db, h[r].id)
       THEN /\ h' = [h EXCEPT ![r].pc = "logFailed"]
            /\ UNCHANGED db
       ELSE IF h[r].id \in DOMAIN db.products
       THEN /\ db' = [db EXCEPT !.products = DeleteRow(@, h[r].id),
                                !.purchase_history = CascadePurchases(@, h[r].id)]
            /\ h' = [h EXCEPT ![r].pc = "log"]
       ELSE /\ h' = [h EXCEPT ![r] = Finish(@, 404, << >>)]
            /\ UNCHANGED db
    /\ UNCHANGED <<txOpen, snap, started, g>>

\* await logProduct(.., 'DELETE', .., 'success'); res.json
DeleteProductLog(r) ==
    /\ UNCHANGED app
    /\ h[r].kind = "deleteProduct" /\ h[r].pc = "log"
    /\ db' = WriteLog(r, "products", "DELETE", "success")
    /\ h' = [h EXCEPT ![r] = Finish(@, 200, << >>)]
    /\ UNCHANGED <<txOpen, snap, started, g>>

\* catch: await logProduct(.., 'DELETE', req.params.id, .., 'failed'); res.status(500)
DeleteProductLogFailed(r) ==
    /\ UNCHANGED app
    /\ h[r].kind = "deleteProduct" /\ h[r].pc = "logFailed"
    /\ db' = WriteLog(r, "products", "DELETE", "failed")
    /\ h' = [h EXCEPT ![r] = Finish(@, 500, << >>)]
    /\ UNCHANGED <<txOpen, snap, started, g>>

DeleteProduct(r) ==
    \/ DeleteProductSelect(r)
    \/ DeleteProductDelete(r)
    \/ DeleteProductLog(r)
    \/ DeleteProductLogFailed(r)

(***************************************************************************)
(* routes/users.js and routes/logs.js.  authenticateToken sets req.user to *)
(* the payload of the token (id and username as they were at login); both  *)
(* default accounts hold 'settings.users' and 'logs'.  These handlers use  *)
(* no transaction.                                                         *)
(***************************************************************************)
\* req.user of the tokens of the two default accounts
Tokens == {[id |-> 1, username |-> "admin"], [id |-> 2, username |-> "dev"]}

\* ids a request of the users API may name: the default accounts and the next one
UserIds == {1, 2, 3}

\* usernames a request body may carry
Usernames == {"admin", "dev", "bob"}

\* a row of users as the SELECTs of the users API return it
UserRow(d, id) == [id |-> id, username |-> d.users[id].username,
                   is_active |-> d.users[id].is_active]

\* a row of users carries the username
UsernameTaken(d, username) == \E u \in DOMAIN d.users : d.users[u].username = username

\* another row of users carries the username
UsernameTakenByOther(d, username, id) ==
    \E u \in DOMAIN d.users \ {id} : d.users[u].username = username

\* router.get('/')
GetUsersStart(r) ==
    \E user \in Tokens :
        /\ Accept(r, [Idle EXCEPT !.kind = "getUsers", !.user = user, !.pc = "select"])
        /\ UNCHANGED <<db, txOpen, snap>>

\* the filter of the list: hide dev unless the requester is dev
HideDev(rows, user) ==
    IF user.username # "dev" THEN {row \in rows : row.username # "dev"} ELSE rows

\* SELECT .. FROM users; the filter; res.json
GetUsersSelect(r) ==
    /\ UNCHANGED app
    /\ h[r].kind = "getUsers" /\ h[r].pc = "select"
    /\ h' = [h EXCEPT ![r] =
            Finish([@ EXCEPT !.data = HideDev({UserRow(db, u) : u \in DOMAIN db.users},
                                              h[r].user)],
                   200, << >>)]
    /\ UNCHANGED <<db, txOpen, snap, started, g>>

\* router.get('/:id')
GetUserStart(r) ==
    \E user \in Tokens, id \in UserIds :
        /\ Accept(r, [Idle EXCEPT !.kind = "getUser", !.user = user, !.id = id,
                                  !.pc = "select"])
        /\ UNCHANGED <<db, txOpen, snap>>

\* SELECT .. FROM users WHERE id = ?; 404 or res.json with the row
GetUserSelect(r) ==
    /\ UNCHANGED app
    /\ h[r].kind = "getUser" /\ h[r].pc = "select"
    /\ h' = [h EXCEPT ![r] =
            IF @.id \in DOMAIN db.users
            THEN Finish([@ EXCEPT !.data = {UserRow(db, h[r].id)}], 200, << >>)
            ELSE Finish(@, 404, << >>)]
    /\ UNCHANGED <<db, txOpen, snap, started, g>>

\* router.post('/'): validateUser passes for every username of the model
PostUserStart(r) ==
    \E user \in Tokens, username \in Usernames :
        /\ Accept(r, [Idle EXCEPT !.kind = "postUser", !.user = user, !.name = username,
                                  !.pc = "select"])
        /\ UNCHANGED <<db, txOpen, snap>>

\* SELECT id FROM users WHERE username = ?; 400 if it exists; then bcrypt.hash
PostUserSelect(r) ==
    /\ UNCHANGED app
    /\ h[r].kind = "postUser" /\ h[r].pc = "select"
    /\ h' = [h EXCEPT ![r] =
            IF UsernameTaken(db, @.name)
            THEN Finish(@, 400, << >>)
            ELSE [@ EXCEPT !.pc = "insert"]]
    /\ UNCHANGED <<db, txOpen, snap, started, g>>

\* INSERT INTO users; username is UNIQUE.  If the INSERT throws, the catch block
\* evaluates { username, full_name, permissions }, constants of the try block: a
\* ReferenceError before any await, so no log row and no response
PostUserInsert(r) ==
    /\ UNCHANGED app
    /\ h[r].kind = "postUser" /\ h[r].pc = "insert"
    /\ IF UsernameTaken(db, h[r].name)
       THEN /\ h' = [h EXCEPT ![r] = Finish(@, 0, << >>)]
            /\ UNCHANGED db
       ELSE LET insertId == db.seq.users + 1 IN
            /\ db' = [db EXCEPT !.seq.users = insertId,
                                !.users = @ @@ (insertId :>
                                    [username |-> h[r].name, is_active |-> TRUE])]
            /\ h' = [h EXCEPT ![r].pc = "fetch", ![r].id = insertId]
    /\ UNCHANGED <<txOpen, snap, started, g>>

\* SELECT the created user: it reads only
PostUserFetch(r) ==
    /\ UNCHANGED app
    /\ h[r].kind = "postUser" /\ h[r].pc = "fetch"
    /\ h' = [h EXCEPT ![r].pc = "log"]
    /\ UNCHANGED <<db, txOpen, snap, started, g>>

\* await logUser(.., 'CREATE', .., 'success'); res.status(201)
PostUserLog(r) ==
    /\ UNCHANGED app
    /\ h[r].kind = "postUser" /\ h[r].pc = "log"
    /\ db' = WriteLog(r, "users", "CREATE", "success")
    /\ h' = [h EXCEPT ![r] = Finish(@, 201, << >>)]
    /\ UNCHANGED <<txOpen, snap, started, g>>

\* bodies of PUT /users/:id: username ("" when absent) and is_active
PutUserBodies == [username : Usernames \cup {""}, is_active : {"undefined", "true", "false"}]

\* router.put('/:id'): no validator
PutUserStart(r) ==
    \E user \in Tokens, id \in UserIds, body \in PutUserBodies :
        /\ Accept(r, [Idle EXCEPT !.kind = "putUser", !.user = user, !.id = id,
                                  !.name = body.username, !.is_active = body.is_active,
                                  !.pc = "select"])
        /\ UNCHANGED <<db, txOpen, snap>>

\* the checks of PUT /users/:id on the row read, before the name check: the response
\* code of the check that refuses the request, 0 if none does (the bodies of the
\* model carry no password, so the check of the admin password never refuses)
PutUserRefusal(existing, rec) ==
    IF existing.username = "admin" /\ rec.is_active = "false" THEN 400
    ELSE IF existing.username = "dev" /\ rec.is_active = "false" THEN 400
    ELSE IF existing.username = "dev" /\ rec.user.username # "dev" THEN 403
    ELSE 0

\* updateFields is empty: neither username nor is_active is given
NoFields(rec) == rec.name = "" /\ rec.is_active = "undefined"

\* SELECT id, username FROM users WHERE id = ?, and the checks that follow
PutUserSelect(r) ==
    /\ UNCHANGED app
    /\ h[r].kind = "putUser" /\ h[r].pc = "select"
    /\ h' = [h EXCEPT ![r] =
            IF @.id \notin DOMAIN db.users THEN Finish(@, 404, << >>)
            ELSE IF PutUserRefusal(db.users[h[r].id], h[r]) # 0
            THEN Finish(@, PutUserRefusal(db.users[h[r].id], h[r]), << >>)
            ELSE IF @.name # "" /\ @.name # db.users[h[r].id].username
            THEN [@ EXCEPT !.pc = "nameCheck"]
            ELSE IF NoFields(@) THEN Finish(@, 400, << >>)
            ELSE [@ EXCEPT !.pc = "selectOld"]]
    /\ UNCHANGED <<db, txOpen, snap, started, g>>

\* SELECT id FROM users WHERE username = ? AND id != ?
PutUserNameCheck(r) ==
    /\ UNCHANGED app
    /\ h[r].kind = "putUser" /\ h[r].pc = "nameCheck"
    /\ h' = [h EXCEPT ![r] =
            IF UsernameTakenByOther(db, @.name, @.id)
            THEN Finish(@, 400, << >>)
            ELSE [@ EXCEPT !.pc = "selectOld"]]
    /\ UNCHANGED <<db, txOpen, snap, started, g>>

\* SELECT the old row for the log: it reads only
PutUserSelectOld(r) ==
    /\ UNCHANGED app
    /\ h[r].kind = "putUser" /\ h[r].pc = "selectOld"
    /\ h' = [h EXCEPT ![r].pc = "update"]
    /\ UNCHANGED <<db, txOpen, snap, started, g>>

\* the row after UPDATE users SET <the fields given> WHERE id = ?
UpdatedUser(row, rec) ==
    [username  |-> IF rec.name # "" THEN rec.name ELSE row.username,
     is_active |-> IF rec.is_active = "undefined" THEN row.is_active
                   ELSE rec.is_active = "true"]

\* UPDATE users SET .. WHERE id = ?; username is UNIQUE
PutUserUpdate(r) ==
    /\ UNCHANGED app
    /\ h[r].kind = "putUser" /\ h[r].pc = "update"
    /\ IF h[r].name # "" /\ UsernameTakenByOther(db, h[r].name, h[r].id)
       THEN /\ h' = [h EXCEPT ![r].pc = "logFailed"]
            /\ UNCHANGED db
       ELSE /\ db' = IF h[r].id \in DOMAIN db.users
                    THEN [db EXCEPT !.users[h[r].id] = UpdatedUser(@, h[r])]
                    ELSE db
            /\ h' = [h EXCEPT ![r].pc = "fetch"]
    /\ UNCHANGED <<txOpen, snap, started, g>>

\* SELECT the updated user; 404 if it is gone
PutUserFetch(r) ==
    /\ UNCHANGED app
    /\ h[r].kind = "putUser" /\ h[r].pc = "fetch"
    /\ h' = [h EXCEPT ![r] =
            IF @.id \in DOMAIN db.users
            THEN [@ EXCEPT !.pc = "log"]
            ELSE Finish(@, 404, << >>)]
    /\ UNCHANGED <<db, txOpen, snap, started, g>>

\* await logUser(.., 'UPDATE', .., 'success'); res.json
PutUserLog(r) ==
    /\ UNCHANGED app
    /\ h[r].kind = "putUser" /\ h[r].pc = "log"
    /\ db' = WriteLog(r, "users", "UPDATE", "success")
    /\ h' = [h EXCEPT ![r] = Finish(@, 200, << >>)]
    /\ UNCHANGED <<txOpen, snap, started, g>>

\* catch: await logUser(.., 'UPDATE', req.params.id, null, req.body, 'failed'); 500
PutUserLogFailed(r) ==
    /\ UNCHANGED app
    /\ h[r].kind = "putUser" /\ h[r].pc = "logFailed"
    /\ db' = WriteLog(r, "users", "UPDATE", "failed")
    /\ h' = [h EXCEPT ![r] = Finish(@, 500, << >>)]
    /\ UNCHANGED <<txOpen, snap, started, g>>

\* router.delete('/:id')
DeleteUserStart(r) ==
    \E user \in Tokens, id \in UserIds :
        /\ Accept(r, [Idle EXCEPT !.kind = "deleteUser", !.user = user, !.id = id,
                                  !.pc = "select"])
        /\ UNCHANGED <<db, txOpen, snap>>

\* if (parseInt(userId) === req.user.id) 400; SELECT username FROM users WHERE id = ?;
\* 400 for 'admin' and for 'dev'
DeleteUserSelect(r) ==
    /\ UNCHANGED app
    /\ h[r].kind = "deleteUser" /\ h[r].pc = "select"
    /\ h' = [h EXCEPT ![r] =
            IF @.id = @.user.id THEN Finish(@, 400, << >>)
            ELSE IF @.id \in DOMAIN db.users
                    /\ db.users[h[r].id].username \in {"admin", "dev"}
            THEN Finish(@, 400, << >>)
            ELSE [@ EXCEPT !.pc = "selectData"]]
    /\ UNCHANGED <<db, txOpen, snap, started, g>>

\* SELECT username, full_name, permissions FROM users WHERE id = ?: userToDelete
DeleteUserSelectData(r) ==
    /\ UNCHANGED app
    /\ h[r].kind = "deleteUser" /\ h[r].pc = "selectData"
    /\ h' = [h EXCEPT ![r] =
            [@ EXCEPT !.pc = "delete",
                      !.userToDelete = IF h[r].id \in DOMAIN db.users
                                       THEN db.users[h[r].id].username ELSE ""]]
    /\ UNCHANGED <<db, txOpen, snap, started, g>>

\* DELETE FROM users WHERE id = ?; if (result.affectedRows === 0) 404
DeleteUserDelete(r) ==
    /\ UNCHANGED app
    /\ h[r].kind = "deleteUser" /\ h[r].pc = "delete"
    /\ IF h[r].id \in DOMAIN db.users
       THEN /\ db' = [db EXCEPT !.users = DeleteRow(@, h[r].id)]
            /\ h' = [h EXCEPT ![r] =
                    IF @.userToDelete # "" THEN [@ EXCEPT !.pc = "log"]
                    ELSE Finish(@, 200, << >>)]
       ELSE /\ h' = [h EXCEPT ![r] = Finish(@, 404, << >>)]
            /\ UNCHANGED db
    /\ UNCHANGED <<txOpen, snap, started, g>>

\* await logUser(.., 'DELETE', .., 'success'); res.json
DeleteUserLog(r) ==
    /\ UNCHANGED app
    /\ h[r].kind = "deleteUser" /\ h[r].pc = "log"
    /\ db' = WriteLog(r, "users", "DELETE", "success")
    /\ h' = [h EXCEPT ![r] = Finish(@, 200, << >>)]
    /\ UNCHANGED <<txOpen, snap, started, g>>

\* routes/logs.js router.delete('/'): 403 unless req.user.username is 'dev'
ClearLogsStart(r) ==
    \E user \in Tokens :
        /\ Accept(r, IF user.username # "dev"
                     THEN Finish([Idle EXCEPT !.kind = "clearLogs", !.user = user],
                                 403, << >>)
                     ELSE [Idle EXCEPT !.kind = "clearLogs", !.user = user,
                                       !.pc = "delete"])
        /\ UNCHANGED <<db, txOpen, snap>>

\* DELETE FROM activity_logs; res.json
ClearLogsDelete(r) ==
    /\ UNCHANGED app
    /\ h[r].kind = "clearLogs" /\ h[r].pc = "delete"
    /\ db' = [db EXCEPT !.activity_logs = << >>]
    /\ h' = [h EXCEPT ![r] = Finish(@, 200, << >>)]
    /\ UNCHANGED <<txOpen, snap, started, g>>

Users(r) ==
    \/ GetUsersSelect(r)
    \/ GetUserSelect(r)
    \/ PostUserSelect(r)
    \/ PostUserInsert(r)
    \/ PostUserFetch(r)
    \/ PostUserLog(r)
    \/ PutUserSelect(r)
    \/ PutUserNameCheck(r)
    \/ PutUserSelectOld(r)
    \/ PutUserUpdate(r)
    \/ PutUserFetch(r)
    \/ PutUserLog(r)
    \/ PutUserLogFailed(r)
    \/ DeleteUserSelect(r)
    \/ DeleteUserSelectData(r)
    \/ DeleteUserDelete(r)
    \/ DeleteUserLog(r)
    \/ ClearLogsDelete(r)

UsersStart(r) ==
    \/ GetUsersStart(r)
    \/ GetUserStart(r)
    \/ PostUserStart(r)
    \/ PutUserStart(r)
    \/ DeleteUserStart(r)
    \/ ClearLogsStart(r)

(***************************************************************************)
(* utils/license-generator.js.  A string is a sequence of characters.      *)
(***************************************************************************)
\* the characters that \d matches, in the order of their values
DigitChars == <<"0", "1", "2", "3", "4", "5", "6", "7", "8", "9">>

\* parseInt(digit, 10) of a digit character
parseInt(c) == (CHOOSE n \in DOMAIN DigitChars : DigitChars[n] = c) - 1

\* result.toString() of a number below ten
toString(n) == DigitChars[n + 1]

\* the length that /^\d{16}$/ asks for, and the length of a group
CleanedLength == 16
GroupLength == 4

\* s.replace(/-/g, '')
RemoveDashes(s) == SelectSeq(s, LAMBDA c : c # "-")

\* /^\d{16}$/.test(cleaned)
IsDeviceNumber(cleaned) ==
    /\ Len(cleaned) = CleanedLength
    /\ \A i \in DOMAIN cleaned : \E n \in DOMAIN DigitChars : DigitChars[n] = cleaned[i]

\* the prime of each position in a group
primes == <<7, 11, 13, 17>>

\* an offset with the two factors exchanged
OffsetSwapped(groupIndex, position) == groupIndex * 2 + position * 3

\* const offset = groupIndex * 3 + position * 2
Offset(groupIndex, position) == groupIndex * 3 + position * 2

\* the transform of one group: group.split('').map(..).join('')
TransformGroup(group, groupIndex) ==
    [k \in DOMAIN group |->
        toString((parseInt(group[k]) * primes[k] + Offset(groupIndex, k - 1)) % 10)]

\* parts.join('-')
RECURSIVE JoinDashes(_)
JoinDashes(parts) ==
    IF parts = << >> THEN << >>
    ELSE IF Len(parts) = 1 THEN parts[1]
    ELSE parts[1] \o <<"-">> \o JoinDashes(Tail(parts))

\* generate(deviceNumber): '' unless the cleaned device number is 16 digits
generate(deviceNumber) ==
    LET cleaned == RemoveDashes(deviceNumber)
        groups == [j \in 1 .. (CleanedLength \div GroupLength) |->
                      SubSeq(cleaned, (j - 1) * GroupLength + 1, j * GroupLength)]
    IN  IF ~IsDeviceNumber(cleaned) THEN << >>
        ELSE JoinDashes([j \in DOMAIN groups |-> TransformGroup(groups[j], j - 1)])

\* validate(deviceNumber, licenseKey)
validate(deviceNumber, licenseKey) ==
    IF deviceNumber = << >> \/ licenseKey = << >> THEN FALSE
    ELSE LET generated == generate(deviceNumber)
         IN  IF generated = << >> THEN FALSE
             ELSE RemoveDashes(generated) = RemoveDashes(licenseKey)

\* a string of n characters c
Repeat(c, n) == [i \in 1 .. n |-> c]

\* a string of digits with a dash after every group
Dashed(s) ==
    JoinDashes([j \in 1 .. (Len(s) \div GroupLength) |->
                   SubSeq(s, (j - 1) * GroupLength + 1, j * GroupLength)])

\* sixteen digits: one digit repeated, and the digits in rising and falling order
DigitStrings ==
    {Repeat(DigitChars[n], CleanedLength) : n \in DOMAIN DigitChars}
    \cup {[i \in 1 .. CleanedLength |-> DigitChars[((i - 1) % 10) + 1]],
          [i \in 1 .. CleanedLength |-> DigitChars[10 - ((i - 1) % 10)]]}

\* device numbers: sixteen digits bare, dashed, or with a dash in front; and strings
\* that are not device numbers (too short, too long, a letter, empty, dashes only)
DeviceNumbers ==
    DigitStrings
    \cup {Dashed(s) : s \in DigitStrings}
    \cup {<<"-">> \o s : s \in DigitStrings}
    \cup {Repeat("1", CleanedLength - 1), Repeat("1", CleanedLength + 1),
          [Repeat("1", CleanedLength) EXCEPT ![GroupLength] = "x"],
          << >>, Repeat("-", GroupLength)}

\* the key that the license scheme assigns to sixteen digits: the digit d at position
\* p of group g becomes (d * prime[p] + 3 g + 2 p) mod 10
SchemeKey(digits) ==
    [i \in 1 .. CleanedLength |->
        LET gi == (i - 1) \div GroupLength
            p == (i - 1) % GroupLength
        IN  toString((parseInt(digits[i]) * primes[p + 1] + 3 * gi + 2 * p) % 10)]

\* license keys tried against a device number: the key of the scheme bare and
\* dashed, that key with one digit changed, cut short or extended, the empty key,
\* and the device number itself
LicenseKeys(deviceNumber) ==
    LET cleaned == RemoveDashes(deviceNumber)
        key == IF IsDeviceNumber(cleaned) THEN SchemeKey(cleaned)
               ELSE SchemeKey(Repeat("1", CleanedLength))
    IN  {key, Dashed(key), SubSeq(key, 1, CleanedLength - 1), Append(key, "0"),
         << >>, deviceNumber}
        \cup {[key EXCEPT ![i] = toString((parseInt(@) + 1) % 10)] : i \in DOMAIN key}

\* a call of validate with a device number and a license key
InitLicense ==
    /\ app = InitApp
    /\ db = InitDb
    /\ txOpen = FALSE
    /\ snap = InitDb
    /\ started = 0
    /\ g = [pre |-> InitDb, preTx |-> FALSE, prevPre |-> InitDb, prevSale |-> 0]
    /\ \E deviceNumber \in DeviceNumbers :
          \E licenseKey \in LicenseKeys(deviceNumber) :
              h = [r \in Reqs |->
                      IF r = 1
                      THEN [Idle EXCEPT !.kind = "validate", !.pc = "validate",
                                        !.deviceNumber = deviceNumber,
                                        !.licenseKey = licenseKey]
                      ELSE Idle]

\* the call returns
Validate(r) ==
    /\ UNCHANGED app
    /\ h[r].kind = "validate" /\ h[r].pc = "validate"
    /\ h' = [h EXCEPT ![r].pc = "done",
                      ![r].valid = validate(h[r].deviceNumber, h[r].licenseKey)]
    /\ UNCHANGED <<db, txOpen, snap, started, g>>

NextLicense == Validate(1)

(***************************************************************************)
(* The server: any handler in flight takes its next step, or a new request *)
(* is accepted.  Spec lets two handlers interleave at their awaits; SpecSeq *)
(* is the server that receives one request at a time.                      *)
(***************************************************************************)
Step(r) ==
    \/ PostSale(r)
    \/ DeleteSale(r)
    \/ AddQuantity(r)
    \/ PostProduct(r)
    \/ RollbackAndReturn(r)

Start(r, saleRequests) ==
    \/ PostSaleStart(r, saleRequests)
    \/ DeleteSaleStart(r)
    \/ AddQuantityStart(r)
    \/ PostProductStart(r)

\* the slots are interchangeable: a request takes the first free one
FirstFree(r) == \A q \in Reqs : q < r => h[q].pc \notin {"idle", "done"}

\* what the one-at-a-time server remembers when it accepts a request
Remember(r) ==
    g' = [pre |-> db, preTx |-> txOpen, prevPre |-> g.pre,
          prevSale |-> IF h[r].kind = "postSale" /\ h[r].resp.code = 201
                       THEN h[r].saleId ELSE 0]

Next ==
    \E r \in Reqs :
        \/ /\ started < MaxConcReq
           /\ FirstFree(r)
           /\ Start(r, ConcSaleRequests)
           /\ UNCHANGED g
        \/ Step(r)

NextSeq ==
    \/ /\ started < MaxReq
       /\ Start(1, SaleRequests)
       /\ Remember(1)
    \/ Step(1)

\* the INSERTs INTO activity_logs of the request just accepted will throw (the row
\* violates the foreign key of user_id when the requester's account has been deleted,
\* or the statement fails in the database)
LogFailure(r) ==
    /\ UNCHANGED app
    /\ h[r].pc = "begin"
    /\ ~h[r].logFails
    /\ h' = [h EXCEPT ![r].logFails = TRUE]
    /\ UNCHANGED <<db, txOpen, snap, started, g>>

\* the server that receives one request at a time, with audit writes that may fail
NextLog ==
    \/ /\ started < MaxLogReq
       /\ Start(1, SaleRequests)
       /\ Remember(1)
    \/ Step(1)
    \/ LogFailure(1)

\* the server that receives one request at a time, with the whole products API
NextStock ==
    \/ /\ started < MaxStockReq
       /\ \/ Start(1, ConcSaleRequests)
          \/ PutProductStart(1)
          \/ DeleteProductStart(1)
       /\ Remember(1)
    \/ Step(1)
    \/ PutProduct(1)
    \/ DeleteProduct(1)

\* the users API and the logs API, two requests at a time
NextUsers ==
    \E r \in Reqs :
        \/ /\ started < MaxUserReq
           /\ FirstFree(r)
           /\ UsersStart(r)
           /\ UNCHANGED g
        \/ Users(r)

\* the database after one sale of one unit of product 1 to customer 1, total 3, paid 10
SoldDb ==
    [InitDb EXCEPT
        !.products[1].qty = NewQty(InitDb.products[1], [product_id |-> 1, qty |-> 1]),
        !.customers[1] = [overpaid_amount |-> 7, underpaid_amount |-> 0],
        !.sales = (1 :> [customer_id |-> 1, total_amount |-> 3, paid_amount |-> 10,
                         payment_status |-> "overpaid"]),
        !.sale_items = << [sale_id |-> 1, product_id |-> 1, qty |-> 1] >>,
        !.activity_logs = << [table_name |-> "sales", action |-> "CREATE",
                              status |-> "success"] >>,
        !.seq.sales = 1]

\* the server with that sale on record
InitSold ==
    /\ app = InitApp
    /\ db = SoldDb
    /\ txOpen = FALSE
    /\ snap = InitDb
    /\ h = [r \in Reqs |-> Idle]
    /\ started = 0
    /\ g = [pre |-> SoldDb, preTx |-> FALSE, prevPre |-> InitDb, prevSale |-> 0]

\* DELETE /sales/:id requests only, two at a time
NextDel ==
    \E r \in Reqs :
        \/ /\ started < MaxDelReq
           /\ FirstFree(r)
           /\ DeleteSaleStart(r)
           /\ UNCHANGED g
        \/ DeleteSale(r)
        \/ RollbackAndReturn(r)

Spec == Init /\ [][Next]_vars

SpecDel == InitSold /\ [][NextDel]_vars

SpecUsers == Init /\ [][NextUsers]_vars

SpecLicense == InitLicense /\ [][NextLicense]_vars

SpecStock == Init /\ [][NextStock]_vars

SpecLog == Init /\ [][NextLog]_vars

SpecSeq == Init /\ [][NextSeq]_vars


(***************************************************************************)
(* routes/license.js over utils/deviceInfo.js and utils/licenseStorage.js. *)
(* The handlers are synchronous: each is one step.  The license file and   *)
(* the device number of the machine are fields of app; an absent or empty  *)
(* file is the empty string.                                               *)
(***************************************************************************)
MaxLicenseReq == 3

\* deviceInfo.getDeviceNumber: sixteen decimal digits in four dashed groups, a
\* function of the host; the same on every call
getDeviceNumber(a) == a.deviceNumber

\* the machines of the model: their device numbers are one digit repeated
MaxMachine == 3

MachineNumbers == {Dashed(Repeat(DigitChars[n], CleanedLength)) : n \in 1 .. MaxMachine}

\* license keys sent to the route with a device number: the key of the scheme for
\* that number, bare and dashed, the device number itself, and no key
RouteKeys(deviceNumber) ==
    IF deviceNumber = << >> THEN {<< >>}
    ELSE LET key == SchemeKey(RemoveDashes(deviceNumber))
         IN  {key, Dashed(key), deviceNumber, << >>}

\* licenseStorage.readLicense: the content of the file, or null
readLicense(a) == a.licenseFile

\* licenseStorage.writeLicense, when the write succeeds
writeLicense(a, licenseKey) == [a EXCEPT !.licenseFile = licenseKey]

\* the valid field of the answer of GET /license/check
LicenseCheck(a) ==
    IF readLicense(a) = << >> THEN FALSE
    ELSE validate(getDeviceNumber(a), readLicense(a))

\* POST /license/validate; saved is whether the write of the file succeeds
PostLicenseValidate(r, deviceNumber, licenseKey, saved) ==
    /\ started < MaxLicenseReq
    /\ started' = started + 1
    /\ LET isValid == validate(deviceNumber, licenseKey)
           rec == [Idle EXCEPT !.kind = "licenseValidate",
                               !.deviceNumber = deviceNumber, !.licenseKey = licenseKey]
       IN  IF deviceNumber = << >> \/ licenseKey = << >>
           THEN /\ h' = [h EXCEPT ![r] = Finish(rec, 400, << >>)]
                /\ UNCHANGED app
           ELSE IF isValid /\ ~saved
           THEN /\ h' = [h EXCEPT ![r] = Finish(rec, 500, << >>)]
                /\ UNCHANGED app
           ELSE /\ h' = [h EXCEPT ![r] = Finish([rec EXCEPT !.valid = isValid], 200, << >>)]
                /\ app' = IF isValid THEN writeLicense(app, licenseKey) ELSE app
    /\ UNCHANGED <<db, txOpen, snap, g>>

\* GET /license/check
GetLicenseCheck(r) ==
    /\ started < MaxLicenseReq
    /\ started' = started + 1
    /\ h' = [h EXCEPT ![r] = Finish([Idle EXCEPT !.kind = "licenseCheck",
                                                 !.valid = LicenseCheck(app)], 200, << >>)]
    /\ UNCHANGED <<db, txOpen, snap, g, app>>

\* the backend starts on some machine with no license file
InitLicenseRoute ==
    /\ \E deviceNumber \in MachineNumbers : app = [InitApp EXCEPT !.deviceNumber = deviceNumber]
    /\ db = InitDb
    /\ txOpen = FALSE
    /\ snap = InitDb
    /\ h = [r \in Reqs |-> Idle]
    /\ started = 0
    /\ g = [pre |-> InitDb, preTx |-> FALSE, prevPre |-> InitDb, prevSale |-> 0]

NextLicenseRoute ==
    \/ \E deviceNumber \in MachineNumbers \cup {<< >>} :
          \E licenseKey \in RouteKeys(deviceNumber) \cup RouteKeys(getDeviceNumber(app)) :
             \E saved \in BOOLEAN : PostLicenseValidate(1, deviceNumber, licenseKey, saved)
    \/ GetLicenseCheck(1)

SpecLicenseRoute == InitLicenseRoute /\ [][NextLicenseRoute]_vars


(***************************************************************************)
(* electron/main.js: the backend process of the Electron shell.  The field *)
(* shell of app holds the position of the shell (off, check: the health    *)
(* request of dev mode is in flight, up, quit), which callbacks of the      *)
(* health request have fired, the processes spawned so far (numbered in    *)
(* spawn order) and those still alive, the variable backendProcess (0 is   *)
(* null), the flag serverReady and the state of the promise.               *)
(***************************************************************************)
\* resolve() and reject(): the first call settles the promise, later calls do nothing
Settle(sh, outcome) ==
    IF sh.settled = "pending" THEN [sh EXCEPT !.settled = outcome] ELSE sh

\* startBackendProcess; exists is fs.existsSync(BACKEND_EXE_PATH)
startBackendProcess(sh, exists) ==
    IF ~exists THEN Settle(sh, "rejected")
    ELSE [sh EXCEPT !.spawned = @ + 1,
                    !.alive = @ \cup {sh.spawned + 1},
                    !.backendProcess = sh.spawned + 1]

\* stopBackendServer: kill the process that backendProcess refers to
stopBackendServer(sh) ==
    IF sh.backendProcess # 0
    THEN [sh EXCEPT !.alive = @ \ {sh.backendProcess}, !.backendProcess = 0]
    ELSE sh

\* startBackendServer: in dev mode the health request is sent (after a second),
\* otherwise the backend is spawned at once
StartBackendServer(isDev, exists) ==
    /\ app.shell.pc = "off"
    /\ app' = [app EXCEPT !.shell =
                  IF isDev THEN [@ EXCEPT !.pc = "check", !.isDev = TRUE, !.window = TRUE]
                  ELSE startBackendProcess([@ EXCEPT !.pc = "up", !.window = TRUE], exists)]
    /\ UNCHANGED <<db, txOpen, snap, h, started, g>>

\* the response callback of the health request
HealthResponse(statusCode, exists) ==
    /\ app.shell.pc = "check"
    /\ ~app.shell.responded /\ ~app.shell.errored /\ ~app.shell.destroyed
    /\ app' = [app EXCEPT !.shell =
                  LET sh == [@ EXCEPT !.responded = TRUE]
                  IN  IF statusCode = 200 THEN Settle(sh, "resolved")
                      ELSE startBackendProcess(sh, exists)]
    /\ UNCHANGED <<db, txOpen, snap, h, started, g>>

\* the 'error' callback of the health request: the connection is refused, or the
\* request has been destroyed
HealthError(exists) ==
    /\ app.shell.pc = "check"
    /\ ~app.shell.errored /\ ~app.shell.responded
    /\ app' = [app EXCEPT !.shell = startBackendProcess([@ EXCEPT !.errored = TRUE], exists)]
    /\ UNCHANGED <<db, txOpen, snap, h, started, g>>

\* the callback of req.setTimeout(1000): no answer within a second; req.destroy()
HealthTimeout(exists) ==
    /\ app.shell.pc = "check"
    /\ ~app.shell.destroyed /\ ~app.shell.responded /\ ~app.shell.errored
    /\ app' = [app EXCEPT !.shell = startBackendProcess([@ EXCEPT !.destroyed = TRUE], exists)]
    /\ UNCHANGED <<db, txOpen, snap, h, started, g>>

\* the stdout listener of the process backendProcess refers to sees 'Server running on port'
BackendStdout ==
    /\ app.shell.pc \in {"check", "up"}
    /\ app.shell.backendProcess \in app.shell.alive
    /\ ~app.shell.serverReady
    /\ app' = [app EXCEPT !.shell = Settle([@ EXCEPT !.serverReady = TRUE], "resolved")]
    /\ UNCHANGED <<db, txOpen, snap, h, started, g>>

\* a backend process exits by itself with code; the 'exit' listener
BackendExit(p, code) ==
    /\ app.shell.pc \in {"check", "up"}
    /\ p \in app.shell.alive
    /\ app' = [app EXCEPT !.shell =
                  LET sh == [@ EXCEPT !.alive = @ \ {p}]
                  IN  IF code # 0 THEN Settle(sh, "rejected") ELSE sh]
    /\ UNCHANGED <<db, txOpen, snap, h, started, g>>

\* the timer of 5 seconds after the spawn: when the ready line has not been seen,
\* a health request is sent, and its answer 200 resolves the promise
StartupHealth ==
    /\ app.shell.pc \in {"check", "up"}
    /\ app.shell.spawned > 0
    /\ ~app.shell.serverReady
    /\ app' = [app EXCEPT !.shell = Settle([@ EXCEPT !.serverReady = TRUE], "resolved")]
    /\ UNCHANGED <<db, txOpen, snap, h, started, g>>

\* 'window-all-closed': except on macOS, stopBackendServer and app.quit(), which
\* emits 'before-quit'
WindowAllClosed(darwin) ==
    /\ app.shell.pc \in {"check", "up"}
    /\ app.shell.window
    /\ app' = [app EXCEPT !.shell =
                  IF darwin THEN [@ EXCEPT !.window = FALSE]
                  ELSE [stopBackendServer(stopBackendServer(@)) EXCEPT
                            !.pc = "quit", !.window = FALSE]]
    /\ UNCHANGED <<db, txOpen, snap, h, started, g>>

\* 'activate' on macOS: the window is created again
Activate ==
    /\ app.shell.pc \in {"check", "up"}
    /\ ~app.shell.window
    /\ app' = [app EXCEPT !.shell.window = TRUE]
    /\ UNCHANGED <<db, txOpen, snap, h, started, g>>

\* 'before-quit': the user quits the app
BeforeQuit ==
    /\ app.shell.pc \in {"check", "up"}
    /\ app' = [app EXCEPT !.shell = [stopBackendServer(@) EXCEPT !.pc = "quit"]]
    /\ UNCHANGED <<db, txOpen, snap, h, started, g>>

NextShell ==
    \/ \E isDev, exists \in BOOLEAN : StartBackendServer(isDev, exists)
    \/ \E statusCode \in {200, 500}, exists \in BOOLEAN : HealthResponse(statusCode, exists)
    \/ \E exists \in BOOLEAN : HealthError(exists)
    \/ \E exists \in BOOLEAN : HealthTimeout(exists)
    \/ BackendStdout
    \/ StartupHealth
    \/ Activate
    \/ \E p \in app.shell.alive, code \in {0, 1} : BackendExit(p, code)
    \/ \E darwin \in BOOLEAN : WindowAllClosed(darwin)
    \/ BeforeQuit

SpecShell == Init /\ [][NextShell]_vars


(***************************************************************************)
(* Permissions: hasPermission of frontend/src/utils/permissions.js and     *)
(* requirePermission of backend/middleware/auth.js.  A permission string   *)
(* is the sequence of its parts between the dots: 'settings.units' is      *)
(* <<"settings", "units">>.  The permissions value of a user is an array   *)
(* (of which only membership is used) or not an array.                     *)
(***************************************************************************)
PermissionStrings ==
    {<<"dashboard">>, <<"products">>, <<"settings">>, <<"settings", "units">>,
     <<"settings", "users">>, <<"logs">>}

PermissionValues ==
    [isArray : {TRUE}, items : SUBSET PermissionStrings] \cup {[isArray |-> FALSE, items |-> {}]}

\* Array.prototype.includes
includes(userPermissions, permission) == permission \in userPermissions.items

hasPermission(userPermissions, permission) ==
    IF ~userPermissions.isArray THEN FALSE
    ELSE IF includes(userPermissions, permission) THEN TRUE
    ELSE IF Len(permission) > 1 /\ includes(userPermissions, <<Head(permission)>>) THEN TRUE
    ELSE FALSE

\* requirePermission(permission) on a request whose token carries userPermissions:
\* the status it answers, or 0 when it calls next()
requirePermission(userPermissions, permission) ==
    IF ~userPermissions.isArray THEN 403
    ELSE IF ~includes(userPermissions, permission) THEN 403
    ELSE 0

\* a user with some permissions value looks at an action that needs a permission
InitPermission ==
    /\ app = InitApp
    /\ db = InitDb
    /\ txOpen = FALSE
    /\ snap = InitDb
    /\ started = 0
    /\ g = [pre |-> InitDb, preTx |-> FALSE, prevPre |-> InitDb, prevSale |-> 0]
    /\ \E userPermissions \in PermissionValues :
          \E permission \in PermissionStrings :
              h = [r \in Reqs |->
                      IF r = 1
                      THEN [Idle EXCEPT !.kind = "permission", !.pc = "ui",
                                        !.permissions = userPermissions,
                                        !.permission = permission]
                      ELSE Idle]

\* the frontend decides whether it offers the action
HasPermission(r) ==
    /\ h[r].kind = "permission" /\ h[r].pc = "ui"
    /\ h' = [h EXCEPT ![r].pc = "request",
                      ![r].allowed = hasPermission(h[r].permissions, h[r].permission)]
    /\ UNCHANGED <<db, txOpen, snap, started, g, app>>

\* the request of the action passes through the middleware; the route answers 200
RequirePermission(r) ==
    /\ h[r].kind = "permission" /\ h[r].pc = "request"
    /\ LET status == requirePermission(h[r].permissions, h[r].permission)
       IN  h' = [h EXCEPT ![r] = Finish(@, IF status = 0 THEN 200 ELSE status, << >>)]
    /\ UNCHANGED <<db, txOpen, snap, started, g, app>>

NextPermission == HasPermission(1) \/ RequirePermission(1)

SpecPermission == InitPermission /\ [][NextPermission]_vars


(***************************************************************************)
(* Frontend: utils/sessionManager.js, context/AuthContext.js and the       *)
(* session settings page.  Time is counted in check intervals (minutes);   *)
(* the clock, the keys of localStorage and the setInterval of AuthContext  *)
(* are fields of app.                                                      *)
(***************************************************************************)
\* the period of the setInterval of startSessionCheck: the unit of time
CheckInterval == 1

\* 24 hours, scaled down to a few check intervals
SESSION_DURATION == 3

\* the clock stops here
MaxTime == 9

isSessionManagementEnabled(a) == a.enabled

setSessionManagementEnabled(a, enabled) ==
    [a EXCEPT !.enabled = enabled,
              !.sessionStart = IF ~enabled THEN -1 ELSE @]

initSession(a) ==
    IF ~isSessionManagementEnabled(a) THEN a
    ELSE [a EXCEPT !.sessionStart = a.now]

isSessionExpired(a) ==
    IF ~isSessionManagementEnabled(a) THEN FALSE
    ELSE IF a.sessionStart = -1 THEN TRUE
    ELSE a.now - a.sessionStart >= SESSION_DURATION

clearSession(a) == [a EXCEPT !.sessionStart = -1, !.token = FALSE]

\* AuthContext logout: clearSession and clearInterval
logout(a) == [clearSession(a) EXCEPT !.interval = FALSE]

startSessionCheck(a) ==
    IF ~isSessionManagementEnabled(a) THEN a
    ELSE [a EXCEPT !.interval = TRUE]

\* AuthContext login, with credentials the backend accepts
Login ==
    /\ ~app.token
    /\ LET a == [app EXCEPT !.token = TRUE]
       IN  app' = IF isSessionManagementEnabled(a)
                  THEN startSessionCheck(initSession(a))
                  ELSE a
    /\ UNCHANGED <<db, txOpen, snap, h, started, g>>

\* the user presses Logout
Logout ==
    /\ app.token
    /\ app' = logout(app)
    /\ UNCHANGED <<db, txOpen, snap, h, started, g>>

\* SessionSettings handleSave with the switch at enabled; the page is shown to a
\* logged-in user, so isAuthenticated holds
handleSave(enabled) ==
    /\ app.token
    /\ LET a == setSessionManagementEnabled(app, enabled)
       IN  app' = IF enabled /\ app.token THEN initSession(a) ELSE a
    /\ UNCHANGED <<db, txOpen, snap, h, started, g>>

\* the page is loaded again: the timers of the old page are gone, and the effect of
\* AuthProvider runs; verifyOk is the answer of GET /auth/verify
Mount(verifyOk) ==
    /\ LET a == [app EXCEPT !.interval = FALSE]
       IN  app' = IF ~a.token THEN a
                  ELSE IF isSessionManagementEnabled(a) /\ isSessionExpired(a) THEN clearSession(a)
                  ELSE IF verifyOk THEN startSessionCheck(a)
                  ELSE logout(a)
    /\ UNCHANGED <<db, txOpen, snap, h, started, g>>

\* the callback of the setInterval of startSessionCheck
SessionCheck(a) ==
    IF a.interval /\ isSessionExpired(a) THEN logout(a) ELSE a

\* one check interval passes; the timer, when armed, fires
Tick ==
    /\ app.now < MaxTime
    /\ app' = SessionCheck([app EXCEPT !.now = @ + CheckInterval])
    /\ UNCHANGED <<db, txOpen, snap, h, started, g>>

NextSession ==
    \/ Login
    \/ Logout
    \/ \E enabled \in BOOLEAN : handleSave(enabled)
    \/ \E verifyOk \in BOOLEAN : Mount(verifyOk)
    \/ Tick

SpecSession == Init /\ [][NextSession]_vars


(***************************************************************************)
(* Properties.                                                             *)
(***************************************************************************)
\* every handler has returned
Quiet == \A r \in Reqs : h[r].pc \in {"idle", "done"}

\* the handler of slot r has returned from a POST /sales that passed validateSale
SaleDone(r) == h[r].pc = "done" /\ h[r].kind = "postSale" /\ h[r].items # << >>

\* sum of qty over the rows of a table (or the lines of a request) that name product p
RECURSIVE SumQty(_, _)
SumQty(rows, p) ==
    IF rows = << >> THEN 0
    ELSE (IF Head(rows).product_id = p THEN Head(rows).qty ELSE 0) + SumQty(Tail(rows), p)

\* sum of paid_amount - total_amount over the sales rows ids of a table of sales
RECURSIVE SumSurplus(_, _)
SumSurplus(sales, ids) ==
    IF ids = {} THEN 0
    ELSE LET id == CHOOSE i \in ids : TRUE
         IN  (sales[id].paid_amount - sales[id].total_amount)
             + SumSurplus(sales, ids \ {id})

\* the sale_items rows of a sale
ItemsOf(d, saleId) == SelectSeq(d.sale_items, LAMBDA it : it.sale_id = saleId)

\* C1: sale creation is all-or-nothing.  Once every handler has returned, the four
\* effects of each sale are present together or absent together: a sales row has its
\* sale_items rows and every sale_items row its sales row, the stock of every product
\* is what was purchased minus what the sale_items rows took, and the balance of every
\* customer is the surplus of the sales rows of that customer.
C1_AllOrNothing ==
    Quiet =>
        /\ \A id \in DOMAIN db.sales : ItemsOf(db, id) # << >>
        /\ \A i \in DOMAIN db.sale_items : db.sale_items[i].sale_id \in DOMAIN db.sales
        /\ \A p \in DOMAIN db.products :
              db.products[p].qty = SumQty(db.purchase_history, p) - SumQty(db.sale_items, p)
        /\ \A c \in DOMAIN db.customers :
              db.customers[c].overpaid_amount - db.customers[c].underpaid_amount
                = SumSurplus(db.sales, {id \in DOMAIN db.sales : db.sales[id].customer_id = c})

\* C2: after a sale creation that succeeds, the qty of the product of every line is
\* its qty before the sale minus the qty the request asks of that product.
C2_QtyAfterSale ==
    (SaleDone(1) /\ h[1].resp.code = 201) =>
        \A i \in DOMAIN h[1].items :
            LET p == h[1].items[i].product_id
            IN  db.products[p].qty = g.pre.products[p].qty - SumQty(h[1].items, p)

\* a line of the request asks for more than the stock before the request
Exceeds(item) == g.pre.products[item.product_id].qty < item.qty

\* the request reaches the end of the stock check: the transaction begins and every
\* product exists
ReachesCheck(r) ==
    /\ SaleDone(r)
    /\ ~g.preTx
    /\ \A i \in DOMAIN h[r].items : h[r].items[i].product_id \in DOMAIN g.pre.products

Entry(item) ==
    [product_id |-> item.product_id,
     available_qty |-> g.pre.products[item.product_id].qty,
     requested_qty |-> item.qty]

\* the lines of a request that exceed the stock, in the order of the request
RECURSIVE Exceeding(_)
Exceeding(items) ==
    IF items = << >> THEN << >>
    ELSE (IF Exceeds(Head(items)) THEN << Entry(Head(items)) >> ELSE << >>)
         \o Exceeding(Tail(items))

\* C4: the out_of_stock list of a failed sale creation has one entry for each line
\* that exceeds the stock, and no other entry.
C4_OutOfStockExact ==
    (ReachesCheck(1) /\ h[1].resp.code = 400) =>
        h[1].resp.out_of_stock = Exceeding(h[1].items)

\* C4 witness: two lines, both insufficient, both listed; and a list that leaves out
\* the sufficient line of a request
C4_Witness ==
    /\ ReachesCheck(1)
    /\ h[1].resp.code = 400
    /\ Len(h[1].items) = 2
    /\ Len(h[1].resp.out_of_stock) = 2

\* C5: every customer has overpaid_amount >= 0 and underpaid_amount >= 0 and at most
\* one of the two is not 0.
C5_Balances ==
    \A c \in DOMAIN db.customers :
        /\ db.customers[c].overpaid_amount >= 0
        /\ db.customers[c].underpaid_amount >= 0
        /\ db.customers[c].overpaid_amount = 0 \/ db.customers[c].underpaid_amount = 0

\* C6: a sale overpaid by x > 0 gives underpaid = max(0, u - x) and overpaid =
\* o + max(0, x - u); a sale underpaid by y > 0 gives overpaid = max(0, o - y) and
\* underpaid = u + max(0, y - o); a paid sale leaves the balances as they were.
C6_Reconciliation ==
    (SaleDone(1) /\ h[1].resp.code = 201 /\ h[1].cust \in DOMAIN db.customers) =>
        LET o == g.pre.customers[h[1].cust].overpaid_amount
            u == g.pre.customers[h[1].cust].underpaid_amount
            x == h[1].paid.v - h[1].total.v
            y == h[1].total.v - h[1].paid.v
            now == db.customers[h[1].cust]
        IN  /\ x > 0 => /\ now.underpaid_amount = Max(0, u - x)
                        /\ now.overpaid_amount = o + Max(0, x - u)
            /\ y > 0 => /\ now.overpaid_amount = Max(0, o - y)
                        /\ now.underpaid_amount = u + Max(0, y - o)
            /\ h[1].paymentStatus = "paid" =>
                        /\ now.overpaid_amount = o
                        /\ now.underpaid_amount = u

\* C7: a sale is created and then deleted, with no request in between: the qty of
\* every product and the balances of every customer are what they were before the
\* sale was created.
C7_RoundTrip ==
    (/\ h[1].pc = "done" /\ h[1].kind = "deleteSale" /\ h[1].resp.code = 200
     /\ g.prevSale = h[1].id) =>
        /\ \A p \in DOMAIN g.prevPre.products :
              db.products[p].qty = g.prevPre.products[p].qty
        /\ db.customers = g.prevPre.customers

\* C8: a stored sale is 'paid' iff paid_amount = total_amount, 'overpaid' iff
\* paid_amount > total_amount and 'underpaid' iff paid_amount < total_amount.
C8_PaymentStatus ==
    \A id \in DOMAIN db.sales :
        LET s == db.sales[id]
        IN  /\ s.payment_status \in {"paid", "overpaid", "underpaid"}
            /\ s.payment_status = "paid" <=> s.paid_amount = s.total_amount
            /\ s.payment_status = "overpaid" <=> s.paid_amount > s.total_amount
            /\ s.payment_status = "underpaid" <=> s.paid_amount < s.total_amount

C10_NoOpenTransaction == Quiet => ~txOpen

\* the handler of slot r has returned from a mutating request that passed its validators
MutationDone(r) ==
    /\ h[r].pc = "done"
    /\ h[r].kind = "postSale" => h[r].items # << >>

\* C11: every mutating request handler writes exactly one activity_logs row per
\* request, whether the request succeeds or fails: once the handler has returned, the
\* table has one row more than before the request.
C11_OneLogRow ==
    MutationDone(1) => Len(db.activity_logs) = Len(g.pre.activity_logs) + 1

\* C12: if a database statement of sale creation throws, the handler rolls the
\* transaction back, writes one audit row for table 'sales' with status 'failed', and
\* answers 500: the step that leaves the catch block ends in such a state.
C12_FailedSale ==
    [][(h[1].kind = "postSale" /\ h[1].pc = "catch" /\ h'[1].pc = "done") =>
          /\ ~txOpen'
          /\ h'[1].resp.code = 500
          /\ Len(db'.activity_logs) > 0
          /\ db'.activity_logs[Len(db'.activity_logs)]
                = [table_name |-> "sales", action |-> "CREATE", status |-> "failed"]]_vars

\* the request of slot 1 was accepted with no transaction open, and its audit writes fail
LogFailed == h[1].pc = "done" /\ h[1].logFails /\ ~g.preTx

\* the request of slot 1 is one that succeeds when its audit write succeeds
WouldSucceed ==
    CASE h[1].kind = "postSale" ->
            /\ h[1].items # << >>
            /\ \A i \in DOMAIN h[1].items :
                  /\ h[1].items[i].product_id \in DOMAIN g.pre.products
                  /\ ~Exceeds(h[1].items[i])
            /\ h[1].cust = 0 \/ h[1].cust \in DOMAIN g.pre.customers
      [] h[1].kind = "deleteSale" -> h[1].id \in DOMAIN g.pre.sales
      [] h[1].kind = "addQuantity" -> h[1].qty >= 1 /\ h[1].id \in DOMAIN g.pre.products
      [] h[1].kind = "postProduct" -> ~NameTaken(g.pre, h[1].name)
      [] OTHER -> FALSE

\* the response code of the success of a request
SuccessCode(kind) == IF kind \in {"postSale", "postProduct"} THEN 201 ELSE 200

\* the mutation of the request of slot 1 is in the database
Mutated ==
    CASE h[1].kind = "postSale" ->
            /\ h[1].saleId \in DOMAIN db.sales
            /\ Len(ItemsOf(db, h[1].saleId)) = Len(h[1].items)
      [] h[1].kind = "deleteSale" -> h[1].id \notin DOMAIN db.sales
      [] h[1].kind = "addQuantity" ->
            db.products[h[1].id].qty = g.pre.products[h[1].id].qty + h[1].qty
      [] h[1].kind = "postProduct" -> NameTaken(db, h[1].name)
      [] OTHER -> FALSE

\* C13: a failure to write the audit row never changes the outcome of the primary
\* operation: the handler sends its normal success response, the mutation is in the
\* database and committed, and only the audit row is missing.
C13_LogFailureSwallowed ==
    (LogFailed /\ WouldSucceed) =>
        /\ h[1].resp.code = SuccessCode(h[1].kind)
        /\ Mutated
        /\ ~txOpen
        /\ db.activity_logs = g.pre.activity_logs

\* C13 witness: a sale was created and answered 201 while its audit write failed
C13_Witness ==
    /\ LogFailed
    /\ h[1].kind = "postSale"
    /\ h[1].resp.code = 201
    /\ h[1].saleId \in DOMAIN db.sales
    /\ db.activity_logs = g.pre.activity_logs

\* the handler of slot 1 has deleted a sale that existed before the request
SaleDeleted ==
    /\ h[1].pc = "done" /\ h[1].kind = "deleteSale" /\ h[1].resp.code = 200
    /\ h[1].id \in DOMAIN g.pre.sales

\* C14: deleting a sale adds the qty of each of its items back to the product of the
\* item: the qty of every product is its qty before the deletion plus the sum of the
\* qty of the sale's items of that product; the sales row and all its sale_items rows
\* are removed.
C14_DeleteRestocks ==
    SaleDeleted =>
        /\ \A p \in DOMAIN g.pre.products :
              /\ p \in DOMAIN db.products
              /\ db.products[p].qty
                    = g.pre.products[p].qty + SumQty(ItemsOf(g.pre, h[1].id), p)
        /\ h[1].id \notin DOMAIN db.sales
        /\ ItemsOf(db, h[1].id) = << >>
        /\ DOMAIN db.sales = DOMAIN g.pre.sales \ {h[1].id}
        /\ Len(db.sale_items) = Len(g.pre.sale_items) - Len(ItemsOf(g.pre, h[1].id))

\* C14 witness: a sale of two lines was deleted and the stock went up
C14_Witness ==
    /\ SaleDeleted
    /\ Len(ItemsOf(g.pre, h[1].id)) = 2
    /\ db.products[1].qty > g.pre.products[1].qty

\* C15: in every state, also when requests interleave, every sale_items row refers to
\* an existing sales row.
C15_ItemsHaveSale ==
    \A i \in DOMAIN db.sale_items : db.sale_items[i].sale_id \in DOMAIN db.sales

\* C15 witness: the rollback of another request has removed the sales row of a sale
\* creation in flight, and the INSERT of its second sale_items row has been refused
C15_Witness ==
    \E r \in Reqs :
        /\ h[r].kind = "postSale" /\ h[r].pc = "catch"
        /\ h[r].saleId # 0 /\ h[r].saleId \notin DOMAIN db.sales
        /\ h[r].idx = 2
        /\ db.sale_items = << >>

\* s is a prefix of t
IsPrefix(s, t) == Len(s) <= Len(t) /\ \A i \in DOMAIN s : t[i] = s[i]

\* C16: purchase history is append-only.  The rows that were committed before a
\* request are still there, unchanged, once the request has been handled, whatever
\* the request: the table has only grown at its end.
C16_PurchasesAppendOnly ==
    (h[1].pc = "done" /\ ~g.preTx /\ ~txOpen) =>
        IsPrefix(g.pre.purchase_history, db.purchase_history)

\* C17: the activity log is append-only: no step of any request updates or deletes
\* an existing activity_logs row; the table only grows at its end.
C17_LogsAppendOnly ==
    [][IsPrefix(db.activity_logs, db'.activity_logs)]_vars

\* C18: the default admin account is never deleted or deactivated: the users row
\* that was created as 'admin' exists and is active in every state.
C18_AdminStays ==
    /\ 1 \in DOMAIN db.users
    /\ db.users[1].is_active

\* C19: the dev account is hidden from every other user: no response of the list or
\* of the single-user read to a requester other than 'dev' contains its record.
C19_DevHidden ==
    \A r \in Reqs :
        (/\ h[r].pc = "done" /\ h[r].kind \in {"getUsers", "getUser"}
         /\ h[r].user.username # "dev") =>
            \A row \in h[r].data : row.username # "dev"

\* C20: validate(deviceNumber, licenseKey) is true exactly when deviceNumber with the
\* dashes removed is 16 decimal digits and licenseKey with the dashes removed is the
\* key of the scheme for these digits; it is false for every other input.
C20_Validate ==
    (h[1].kind = "validate" /\ h[1].pc = "done") =>
        (h[1].valid <=>
            /\ IsDeviceNumber(RemoveDashes(h[1].deviceNumber))
            /\ RemoveDashes(h[1].licenseKey) = SchemeKey(RemoveDashes(h[1].deviceNumber)))

\* C20 witness: a dashed device number of different digits and its bare key are valid
C20_Witness ==
    /\ h[1].kind = "validate" /\ h[1].pc = "done"
    /\ h[1].valid
    /\ Len(h[1].deviceNumber) > CleanedLength
    /\ Len(h[1].licenseKey) = CleanedLength
    /\ h[1].deviceNumber[1] # h[1].deviceNumber[2]

\* C21: a create or rename request that would give a row a name already held by
\* another row is rejected with status 400, for any interleaving of such requests,
\* and no two rows of a table share a name.  For users: usernames are unique, a
\* POST /users that creates no user is answered 400, and a PUT /users/:id that is not
\* answered 200, 403 or 404 is answered 400.
C21_DuplicateRejected ==
    /\ \A u \in DOMAIN db.users : ~UsernameTakenByOther(db, db.users[u].username, u)
    /\ \A r \in Reqs :
          /\ (h[r].pc = "done" /\ h[r].kind = "postUser") => h[r].resp.code \in {201, 400}
          /\ (h[r].pc = "done" /\ h[r].kind = "putUser") =>
                h[r].resp.code \in {200, 400, 403, 404}

\* C22: for every sale the restock and the balance reversal of its deletion are
\* applied at most once, also when delete requests for the same sale interleave: with
\* one sale of one unit on record, the stock never exceeds what was purchased and the
\* customer, who overpaid, never ends up owing.
C22_DeleteOnce ==
    /\ \A p \in DOMAIN db.products : db.products[p].qty <= SumQty(db.purchase_history, p)
    /\ \A c \in DOMAIN db.customers : db.customers[c].underpaid_amount = 0

\* C23: with session management enabled, a logged-in user is logged out no later than
\* one check interval after SESSION_DURATION has passed since the session start
C23_SessionExpires ==
    (app.token /\ app.enabled /\ app.sessionStart # -1)
        => app.now - app.sessionStart <= SESSION_DURATION + CheckInterval

\* C28: once the stored license key is valid for the device number of this machine,
\* GET /license/check answers valid = true after every later request
C28_LicenseStays ==
    [][LicenseCheck(app) => LicenseCheck(app')]_vars

\* the sales rows of customer c
SalesOf(d, c) == {id \in DOMAIN d.sales : d.sales[id].customer_id = c}

\* C24: one request at a time, once the handler has returned, overpaid_amount -
\* underpaid_amount of every customer is the sum of paid_amount - total_amount over
\* the sales rows of that customer
C24_BalanceLedger ==
    (h[1].pc \in {"idle", "done"} /\ ~txOpen) =>
        \A c \in DOMAIN db.customers :
            db.customers[c].overpaid_amount - db.customers[c].underpaid_amount
              = SumSurplus(db.sales, SalesOf(db, c))

\* C25: stock is conserved.  One request at a time, once the handler has returned and
\* no transaction is open, the qty of every product is the sum of qty over its
\* purchase_history rows minus the sum of qty over its sale_items rows
C25_StockConserved ==
    (h[1].pc \in {"idle", "done"} /\ ~txOpen) =>
        \A p \in DOMAIN db.products :
            db.products[p].qty = SumQty(db.purchase_history, p) - SumQty(db.sale_items, p)

\* C26: a rollback issued by one request undoes only the writes of that request.  One
\* request at a time, a step that rolls the transaction back leaves the database as
\* it was when the request that issues the rollback was accepted, so what the
\* requests answered before it have written stays in the database
C26_RollbackOwnWrites ==
    [][(txOpen /\ ~txOpen' /\ db' # db) => db' = g.pre]_vars

\* C27: every mutating request receives one HTTP response on every path: a handler
\* that has returned has sent a response, also when it returned through its catch block
C27_OneResponse ==
    \A r \in Reqs : h[r].pc = "done" => h[r].resp.code # 0

\* C29: during one run of the Electron shell at most one backend process is spawned,
\* whichever callbacks of the health request fire, and once the app has quit no
\* backend process it spawned is alive
C29_OneBackend ==
    /\ app.shell.spawned <= 1
    /\ app.shell.pc = "quit" => app.shell.alive = {}

\* C30: the frontend and the backend agree: hasPermission(permissions, p) is true
\* exactly when requirePermission(p) lets a request with those permissions through
C30_PermissionsAgree ==
    (h[1].kind = "permission" /\ h[1].pc = "done") =>
        (h[1].allowed <=> h[1].resp.code # 403)

====
